---------------------------- MODULE Spec2Model ----------------------------
(***************************************************************************)
(* Model of the IPTV front-end's playlist ingestion (services/m3uService). *)
(* A string is a sequence of characters (one-character strings), so that   *)
(* trimming, case folding and token stripping are computed, not assumed.   *)
(***************************************************************************)
EXTENDS Naturals, Integers, Sequences, FiniteSets, Bags, TLC

Null == "<null>"

Undefined == "<undefined>"

Range(s) == {s[i] : i \in DOMAIN s}

(***************************************************************************)
(* Characters                                                              *)
(***************************************************************************)
UpperAlpha ==
  <<"A", "B", "C", "D", "E", "F", "G", "H", "I", "J", "K", "L", "M",
    "N", "O", "P", "Q", "R", "S", "T", "U", "V", "W", "X", "Y", "Z">>

LowerAlpha ==
  <<"a", "b", "c", "d", "e", "f", "g", "h", "i", "j", "k", "l", "m",
    "n", "o", "p", "q", "r", "s", "t", "u", "v", "w", "x", "y", "z">>

DigitChars == <<"0", "1", "2", "3", "4", "5", "6", "7", "8", "9">>

\* \w of a JavaScript regular expression without the u flag
WordChars ==
  Range(UpperAlpha) \cup Range(LowerAlpha) \cup Range(DigitChars) \cup {"_"}

IsWordChar(c) == c \in WordChars

\* \s, and the characters String.prototype.trim removes
IsSpace(c) == c \in {" ", "\t", "\r"}

LowerChar(c) ==
  IF \E i \in DOMAIN UpperAlpha : UpperAlpha[i] = c
    THEN LowerAlpha[CHOOSE i \in DOMAIN UpperAlpha : UpperAlpha[i] = c]
    ELSE c

UpperChar(c) ==
  IF \E i \in DOMAIN LowerAlpha : LowerAlpha[i] = c
    THEN UpperAlpha[CHOOSE i \in DOMAIN LowerAlpha : LowerAlpha[i] = c]
    ELSE c

toLowerCase(s) == [i \in DOMAIN s |-> LowerChar(s[i])]

toUpperCase(s) == [i \in DOMAIN s |-> UpperChar(s[i])]

\* Compatibility characters and their NFKC decompositions; "<sup-H>" stands
\* for the one character U+1D34, "<sup-D>" for U+1D30, "<sup-plus>" for U+207A.
CompatChar(c) ==
  CASE c = "<sup-H>" -> <<"H">>
    [] c = "<sup-D>" -> <<"D">>
    [] c = "<sup-plus>" -> <<"+">>
    [] OTHER -> <<c>>

RECURSIVE normalizeNFKC(_)
normalizeNFKC(s) ==
  IF s = <<>> THEN <<>> ELSE CompatChar(Head(s)) \o normalizeNFKC(Tail(s))

RECURSIVE DropLeadingSpace(_)
DropLeadingSpace(s) ==
  IF s # <<>> /\ IsSpace(Head(s)) THEN DropLeadingSpace(Tail(s)) ELSE s

RECURSIVE DropTrailingSpace(_)
DropTrailingSpace(s) ==
  IF s # <<>> /\ IsSpace(s[Len(s)])
    THEN DropTrailingSpace(SubSeq(s, 1, Len(s) - 1))
    ELSE s

\* String.prototype.trim
trim(s) == DropTrailingSpace(DropLeadingSpace(s))

RECURSIVE Join(_)
Join(s) == IF s = <<>> THEN "" ELSE Head(s) \o Join(Tail(s))

RECURSIVE Flatten(_)
Flatten(ss) == IF ss = <<>> THEN <<>> ELSE Head(ss) \o Flatten(Tail(ss))

(***************************************************************************)
(* parseChannelInfo: base name and quality label of a raw channel name     *)
(***************************************************************************)
StripTokens ==
  { "4k", "8k", "uhd", "lq", "hd", "fhd", "hq", "sd", "hevc", "h265", "h264",
    "avc", "1080p", "720p", "50fps", "60fps", "vip", "premium", "backup",
    "xtra", "xstra", "extra", "exstra", "se", "swe", "sweden", "no", "nor",
    "norway", "dk", "dan", "denmark", "fi", "fin", "finland", "en",
    "english", "ar", "arab", "arabic", "tr", "turkey", "france", "fr",
    "french", "ultra", "italy", "it", "italian", "guhd", "afc", "raw", "720",
    "480", "hr", "rs", "eu", "europe", "scandinavia", "nordic", "int" }

RECURSIVE WordPrefixLen(_)
WordPrefixLen(s) ==
  IF s # <<>> /\ IsWordChar(Head(s)) THEN 1 + WordPrefixLen(Tail(s)) ELSE 0

\* The maximal runs of word characters of s, and between them the other
\* characters one by one: \b(...)\b can only match a whole run.
RECURSIVE WordRuns(_)
WordRuns(s) ==
  IF s = <<>> THEN <<>>
  ELSE LET n == WordPrefixLen(s)
       IN IF n = 0
            THEN <<SubSeq(s, 1, 1)>> \o WordRuns(Tail(s))
            ELSE <<SubSeq(s, 1, n)>> \o WordRuns(SubSeq(s, n + 1, Len(s)))

\* stripRegex, flags gi
MatchesStripRegex(run) == Join(toLowerCase(run)) \in StripTokens

IsBracket(c) == c \in {"(", ")", "[", "]", "|"}

RECURSIVE CollapseSpaces(_)
CollapseSpaces(s) ==
  IF s = <<>> THEN <<>>
  ELSE IF IsSpace(Head(s))
         THEN <<" ">> \o CollapseSpaces(DropLeadingSpace(s))
         ELSE <<Head(s)>> \o CollapseSpaces(Tail(s))

\* .replace(/^[\s\W]+/, '')
RECURSIVE DropLeadingSeparators(_)
DropLeadingSeparators(s) ==
  IF s # <<>> /\ ~IsWordChar(Head(s))
    THEN DropLeadingSeparators(Tail(s))
    ELSE s

NotBracket(c) == ~IsBracket(c)

NotStripped(run) == ~MatchesStripRegex(run)

\* the first match as the quality indicator
firstMatch(matches) == matches[1]

\* line 54: matches[matches.length - 1]
lastMatch(matches) == matches[Len(matches)]

\* no fallback: the cleaned name whatever is left of it
cleanedOnly(cleaned, rawName) == cleaned

\* line 71: if (!baseName) baseName = rawName.trim()
orTrimmedRawName(cleaned, rawName) ==
  IF cleaned = <<>> THEN trim(rawName) ELSE cleaned

parseChannelInfo(rawName) ==
  LET normalizedName == normalizeNFKC(rawName)
      runs == WordRuns(normalizedName)
      matches == SelectSeq(runs, MatchesStripRegex)
      quality == IF Len(matches) > 0
                   THEN toUpperCase(lastMatch(matches))
                   ELSE <<"S", "D">>
      stripped == Flatten(SelectSeq(runs, NotStripped))
      cleaned == trim(CollapseSpaces(
                   DropLeadingSeparators(SelectSeq(stripped, NotBracket))))
      baseName == orTrimmedRawName(cleaned, rawName)
  IN [baseName |-> baseName, quality |-> quality]

(***************************************************************************)
(* generateFallbackLogo                                                    *)
(***************************************************************************)
LogoTags == <<"hd", "fhd", "4k", "uhd", "hevc", "raw">>

IsPrefixCI(tag, s) ==
  /\ Len(s) >= Len(tag)
  /\ Len(tag) > 0
  /\ Join(toLowerCase(SubSeq(s, 1, Len(tag)))) = tag

\* /(HD|FHD|4K|UHD|HEVC|RAW)/gi: at each position the first alternative
\* that matches is removed
RECURSIVE RemoveLogoTags(_)
RemoveLogoTags(s) ==
  IF s = <<>> THEN <<>>
  ELSE LET hits == {k \in DOMAIN LogoTags : IsPrefixCI(LogoTags[k], s)}
       IN IF hits = {}
            THEN <<Head(s)>> \o RemoveLogoTags(Tail(s))
            ELSE LET k == CHOOSE h \in hits : \A g \in hits : h <= g
                 IN RemoveLogoTags(SubSeq(s, Len(LogoTags[k]) + 1, Len(s)))

IsUpperAlpha(c) == \E i \in DOMAIN UpperAlpha : UpperAlpha[i] = c

\* /^([A-Z]{2,3}\s*[-|]\s*)/: a 2-3 letter upper-case prefix and its separator
RemoveRegionPrefix(s) ==
  LET fits(n) ==
        /\ Len(s) >= n
        /\ \A i \in 1..n : IsUpperAlpha(s[i])
        /\ LET rest == DropLeadingSpace(SubSeq(s, n + 1, Len(s)))
           IN rest # <<>> /\ Head(rest) \in {"-", "|"}
      after(n) ==
        DropLeadingSpace(Tail(DropLeadingSpace(SubSeq(s, n + 1, Len(s)))))
  IN IF fits(3) THEN after(3) ELSE IF fits(2) THEN after(2) ELSE s

EncodeChar(c) == IF c = " " THEN "%20" ELSE c

\* encodeURIComponent on the characters used here
encodeURIComponent(s) == Join([i \in DOMAIN s |-> EncodeChar(s[i])])

generateFallbackLogo(name) ==
  LET cleanName == trim(RemoveRegionPrefix(RemoveLogoTags(name)))
  IN "https://ui-avatars.com/api/?name=" \o encodeURIComponent(cleanName)

(***************************************************************************)
(* Lines of a playlist.  A line is given by what the parser reads of it    *)
(* after trim(): the prefix it starts with, the rest of a plain line, the  *)
(* text after the last comma of a metadata line and the value each         *)
(* attribute pattern captures (NoStr / Null when the pattern finds none).  *)
(***************************************************************************)
NoStr == <<"<none>">>

Truthy(v) == v # NoStr /\ v # <<>>

TruthyAtom(v) == v # Null /\ v # Undefined /\ v # ""

OrElse(a, b) == IF Truthy(a) THEN a ELSE b

OrElseAtom(a, b) == IF TruthyAtom(a) THEN a ELSE b

NoAttrs ==
  [group |-> NoStr, tvgName |-> NoStr, tvgLogo |-> Null, logo |-> Null,
   tvgId |-> Null, urlTvg |-> Null, xTvgUrl |-> Null]

BlankLine == [prefix |-> "", body |-> "", afterComma |-> NoStr, attrs |-> NoAttrs]

TextLine(u) == [BlankLine EXCEPT !.body = u]

CommentLine == [BlankLine EXCEPT !.prefix = "#", !.body = "EXTVLCOPT:x"]

HeaderLine(urlTvg, xTvgUrl) ==
  [BlankLine EXCEPT !.prefix = "#EXTM3U",
                    !.attrs = [NoAttrs EXCEPT !.urlTvg = urlTvg,
                                              !.xTvgUrl = xTvgUrl]]

ExtinfLine(afterComma, group, tvgId) ==
  [BlankLine EXCEPT !.prefix = "#EXTINF:", !.body = "-1",
                    !.afterComma = afterComma,
                    !.attrs = [NoAttrs EXCEPT !.group = group, !.tvgId = tvgId]]

\* line.trim()
trimmedLine(line) == line.prefix \o line.body

startsWith(line, prefix) ==
  CASE prefix = "#" -> line.prefix # ""
    [] OTHER -> line.prefix = prefix

\* extractAttribute: the captured value, trimmed, or null without a match
extractAttribute(line, key) == line.attrs[key]

(***************************************************************************)
(* Playlist documents.  A document is a sequence of blocks; a block is     *)
(* `pad` well-formed filler entries (a metadata line and a URL line each,  *)
(* every filler with a name of its own) followed by the block's lines.     *)
(***************************************************************************)
RECURSIVE DigitsOf(_)
DigitsOf(n) ==
  IF n < 10 THEN <<DigitChars[n + 1]>>
  ELSE DigitsOf(n \div 10) \o <<DigitChars[(n % 10) + 1]>>

FillerGroup == <<"F">>

FillerLine(abs, k) ==
  IF k % 2 = 1
    THEN ExtinfLine(<<"N">> \o DigitsOf(abs), FillerGroup, Null)
    ELSE TextLine("f" \o ToString(abs))

Block(pad, lines) == [pad |-> pad, lines |-> lines]

BlockLen(b) == 2 * b.pad + Len(b.lines)

RECURSIVE NumLines(_)
NumLines(blocks) ==
  IF blocks = <<>> THEN 0 ELSE BlockLen(Head(blocks)) + NumLines(Tail(blocks))

RECURSIVE LineIn(_, _, _)
LineIn(blocks, k, abs) ==
  LET b == Head(blocks)
  IN IF k <= 2 * b.pad THEN FillerLine(abs, k)
     ELSE IF k <= BlockLen(b) THEN b.lines[k - 2 * b.pad]
     ELSE LineIn(Tail(blocks), k - BlockLen(b), abs)

\* content.split('\n'): the empty document is one empty line
linesLength(doc) == IF NumLines(doc) = 0 THEN 1 ELSE NumLines(doc)

lineAt(doc, i) == IF NumLines(doc) = 0 THEN BlankLine ELSE LineIn(doc, i, i)

(***************************************************************************)
(* parseM3U as a state machine: one step per line of the document          *)
(***************************************************************************)
KANALER == "Kanaler"

FOTBOLL == "Fotboll"

WindowLo == 115

WindowHi == 248

Uncategorized ==
  <<"U", "n", "c", "a", "t", "e", "g", "o", "r", "i", "z", "e", "d">>

UnknownChannel ==
  <<"U", "n", "k", "n", "o", "w", "n", " ", "C", "h", "a", "n", "n", "e", "l">>

DefaultQuality == <<"D", "e", "f", "a", "u", "l", "t">>

\* a Channel without a streams property
NoStreams == <<[quality |-> NoStr, url |-> Undefined]>>

\* a pending descriptor that starts out with the placeholder name
EmptyChannelNamed ==
  [name |-> UnknownChannel, group |-> Uncategorized, logo |-> Undefined,
   tvgId |-> Undefined]

\* currentChannel = {}
EmptyChannel ==
  [name |-> NoStr, group |-> NoStr, logo |-> Undefined, tvgId |-> Undefined]

VARIABLES
  content,             \* the document of the running call
  category,            \* its category hint (Undefined when not supplied)
  pc,                  \* "scan", "lines" or "done"
  lineNo,              \* index of the next line of the forEach
  epgUrl,
  groups,              \* Record<string, Channel[]>: <<title, ids>> in insertion order
  heap,                \* the Channel objects ever created, by id
  globalChannelMap,    \* Map<string, Channel>: key -> id
  currentChannel,      \* the pending descriptor
  globalChannelIndex,
  log,                 \* history: one record per completed entry of the call
  result,              \* the value returned by the latest completed call
  returned             \* history: the calls that have returned

\* parseChannelInfo called on its own
VARIABLES
  nameArg,             \* the raw name passed to parseChannelInfo
  parsed,              \* what parseChannelInfo(nameArg) returned, NotParsed before the call
  reparsed             \* what parseChannelInfo(parsed.baseName) returned, NotParsed before

\* parseChannelInfo has not returned yet
NotParsed == [baseName |-> NoStr, quality |-> NoStr]

\* the guide as the player sees it
VARIABLES
  epgData,             \* EPGData: tvg-id -> the channel's programs, time-ordered
  channel,             \* the channel being played
  now,                 \* the clock
  currentProgram,      \* state of VideoPlayer, NoProgram for null
  nextProgram,
  progress,            \* percent, as the fraction num / den
  readAt,              \* history: the clock as read by the two lookups of the last updateEPG
  activeMatchId,       \* state of Sidebar
  localMatches,
  isSearching,
  searched             \* history: the title and the clock of the last findLocalMatches

\* the App: its EPG sources and its load of the playlist and of the guide
VARIABLES
  manualEpgUrl,        \* MANUAL_EPG_URL, fixed by the build
  customEpgUrl,        \* CUSTOM_EPG_URL, fixed by the build
  loading,             \* state of App
  playlist,
  selectedGroup,
  loads,               \* history: the number of runs of loadData so far
  inFlight,            \* the runs of loadData that are awaiting a promise
  merged,              \* history: the two sources of the guide in epgData
  activeCategory,      \* state of App
  heldFor              \* history: the categories that playlist and epgData were loaded for

\* fetchPlaylist
VARIABLES
  fetchState,          \* "idle", "fetch" (awaiting fetch), "parse", "resolved" or "rejected"
  fetchCall,           \* history: the arguments of the latest call and what the network did
  fetchResult,         \* what the promise of the latest call resolved to
  fetches              \* history: the number of calls so far

\* the cache of the highlights in localStorage
VARIABLES
  storage,             \* the item stored under CACHE_KEY
  clockMs,             \* Date.now(), in milliseconds
  lastRead             \* history: the latest call of getFromCache and its value

\* fetchFootballHighlights
VARIABLES
  highlightsCall       \* the call in progress, with the history of what it saw

\* pollLiveScores
VARIABLES
  scoresCall           \* history: the latest call, its inputs and its result

\* the goal alerts of VideoPlayer
VARIABLES
  isGoalAlertEnabled,
  notificationQueue,   \* GoalEvent[], each with the number it was enqueued under
  currentNotification, \* NoNotification for null
  notificationTimeout, \* the timer of notificationTimeoutRef is pending
  lastKnownMatches,    \* lastKnownMatchesRef.current
  polls,               \* the bag of the calls of poll that await pollLiveScores
  liveScore,           \* the home score of the tracked match at the API
  isListOpen,
  showTeletext,
  enqueued,            \* history: the number of events appended to the queue so far
  lastShown,           \* history: the number of the event displayed last
  announced,           \* history: the scores a notification was queued for
  reannounced,         \* history: those a notification was queued for again
  lastEnter            \* history: the Enter key, when it was the latest event

parserVars ==
  <<content, category, pc, lineNo, epgUrl, groups, heap, globalChannelMap,
    currentChannel, globalChannelIndex, log, result, returned>>

normalizerVars == <<nameArg, parsed, reparsed>>

guideVars ==
  <<epgData, channel, now, currentProgram, nextProgram, progress, readAt,
    activeMatchId, localMatches, isSearching, searched>>

loaderVars ==
  <<manualEpgUrl, customEpgUrl, loading, playlist, selectedGroup, loads,
    inFlight, merged, activeCategory, heldFor>>

fetchVars == <<fetchState, fetchCall, fetchResult, fetches>>

cacheVars == <<storage, clockMs, lastRead>>

highlightsVars == <<highlightsCall>>

\* the state of the services and of the player that are modelled further down
scoresVars == <<scoresCall>>

\* the stream of VideoPlayer
VARIABLES
  activeStreamIndex,   \* state of VideoPlayer, counted from 0
  videoSrc,            \* the URL that loadStream loaded last, <<>> when removed
  hls,                 \* hlsRef.current: "none", "attached" or "destroyed"
  nativeHls,           \* canPlayType('application/vnd.apple.mpegurl')
  retryTimeoutRef,     \* the id of a timer, 0 for null
  stallTimeoutRef,
  timers,              \* the timers of setTimeout that are pending
  armed,               \* history: the number of timers armed so far
  lastKey              \* history: the latest event and the state it met

streamVars ==
  <<activeStreamIndex, videoSrc, hls, nativeHls, retryTimeoutRef,
    stallTimeoutRef, timers, armed, lastKey>>

alertVars ==
  <<isGoalAlertEnabled, notificationQueue, currentNotification,
    notificationTimeout, lastKnownMatches, polls, liveScore, isListOpen,
    showTeletext, enqueued, lastShown, announced, reannounced, lastEnter>>

laterVars == <<highlightsVars, scoresVars, alertVars, streamVars>>

appVars == <<loaderVars, fetchVars, cacheVars, laterVars>>

\* the state that loadData never touches, the player and the drawer aside
beyondLoader == <<parserVars, normalizerVars, fetchVars, cacheVars, laterVars>>

\* the state that fetchPlaylist never touches, parseM3U aside
beyondFetch == <<normalizerVars, guideVars, loaderVars, cacheVars, laterVars>>

\* the state that the cache never touches
beyondCache ==
  <<parserVars, normalizerVars, guideVars, loaderVars, fetchVars, laterVars>>

\* the state that fetchFootballHighlights never touches, the cache aside
beyondHighlights ==
  <<parserVars, normalizerVars, guideVars, loaderVars, fetchVars, streamVars>>

\* the state that parseM3U never touches
beyondParser == <<normalizerVars, guideVars, appVars>>

beyondNormalizer == <<parserVars, guideVars, appVars>>

beyondGuide == <<parserVars, normalizerVars, appVars>>

vars == <<parserVars, beyondParser>>

NoResult == [groups |-> <<>>, epgUrl |-> Undefined]

\* a map kept at module level, shared by all calls
staleGlobalChannelMap == globalChannelMap

\* line 84: the map is created anew by every call
newGlobalChannelMap == <<>>

\* lines 77-87: the locals of a fresh call
EnterCall(doc, cat) ==
  /\ content' = doc
  /\ category' = cat
  /\ pc' = "scan"
  /\ lineNo' = 1
  /\ epgUrl' = Null
  /\ groups' = <<>>
  /\ globalChannelMap' = newGlobalChannelMap
  /\ currentChannel' = EmptyChannel
  /\ globalChannelIndex' = 0
  /\ log' = <<>>

\* lines 89-95: the EPG attribute of the first #EXTM3U line, among the
\* first five lines, that carries one
\* the same scan over every line of the document
RECURSIVE ScanEveryLine(_, _, _)
ScanEveryLine(doc, i, found) ==
  IF i > linesLength(doc) THEN found
  ELSE LET line == lineAt(doc, i)
           value == OrElseAtom(extractAttribute(line, "urlTvg"),
                               extractAttribute(line, "xTvgUrl"))
       IN IF startsWith(line, "#EXTM3U")
            THEN IF TruthyAtom(value) THEN value
                 ELSE ScanEveryLine(doc, i + 1, value)
            ELSE ScanEveryLine(doc, i + 1, found)

\* the same scan over the first six lines
RECURSIVE ScanSixLines(_, _, _)
ScanSixLines(doc, i, found) ==
  IF i > linesLength(doc) \/ i > 6 THEN found
  ELSE LET line == lineAt(doc, i)
           value == OrElseAtom(extractAttribute(line, "urlTvg"),
                               extractAttribute(line, "xTvgUrl"))
       IN IF startsWith(line, "#EXTM3U")
            THEN IF TruthyAtom(value) THEN value
                 ELSE ScanSixLines(doc, i + 1, value)
            ELSE ScanSixLines(doc, i + 1, found)

RECURSIVE ScanFrom(_, _, _)
ScanFrom(doc, i, found) ==
  IF i > linesLength(doc) \/ i > 5 THEN found
  ELSE LET line == lineAt(doc, i)
           value == OrElseAtom(extractAttribute(line, "urlTvg"),
                               extractAttribute(line, "xTvgUrl"))
       IN IF startsWith(line, "#EXTM3U")
            THEN IF TruthyAtom(value) THEN value
                 ELSE ScanFrom(doc, i + 1, value)
            ELSE ScanFrom(doc, i + 1, found)

ScanHeader ==
  /\ pc = "scan"
  /\ UNCHANGED beyondParser
  /\ epgUrl' = ScanFrom(content, 1, epgUrl)
  /\ pc' = "lines"
  /\ UNCHANGED <<content, category, lineNo, groups, heap, globalChannelMap,
                 currentChannel, globalChannelIndex, log, result, returned>>

AtLine == pc = "lines" /\ lineNo <= linesLength(content)

line == lineAt(content, lineNo)

\* line 99: if (!trimmedLine) return
IsEmptyLine(l) == trimmedLine(l) = ""

SkipEmpty ==
  /\ AtLine
  /\ UNCHANGED beyondParser
  /\ IsEmptyLine(line)
  /\ lineNo' = lineNo + 1
  /\ UNCHANGED <<content, category, pc, epgUrl, groups, heap,
                 globalChannelMap, currentChannel, globalChannelIndex, log,
                 result, returned>>

\* a line starting with '#' that is no metadata line falls through both tests
SkipComment ==
  /\ AtLine
  /\ UNCHANGED beyondParser
  /\ ~IsEmptyLine(line)
  /\ ~startsWith(line, "#EXTINF:")
  /\ startsWith(line, "#")
  /\ lineNo' = lineNo + 1
  /\ UNCHANGED <<content, category, pc, epgUrl, groups, heap,
                 globalChannelMap, currentChannel, globalChannelIndex, log,
                 result, returned>>

\* the attributes as written, without the defaults of lines 108-114
DescriptorAsWritten(l) ==
  LET afterComma == IF l.afterComma = NoStr THEN <<>> ELSE trim(l.afterComma)
      group == extractAttribute(l, "group")
  IN [name |-> afterComma,
      group |-> IF group = NoStr THEN <<>> ELSE group,
      logo |-> OrElseAtom(OrElseAtom(extractAttribute(l, "tvgLogo"),
                                     extractAttribute(l, "logo")), Undefined),
      tvgId |-> OrElseAtom(extractAttribute(l, "tvgId"), Undefined)]

\* lines 101-121
Descriptor(l) ==
  LET afterComma == IF l.afterComma = NoStr THEN <<>> ELSE trim(l.afterComma)
      groupTitle == OrElse(extractAttribute(l, "group"), Uncategorized)
      tvgLogo == OrElseAtom(extractAttribute(l, "tvgLogo"),
                            extractAttribute(l, "logo"))
      tvgName == extractAttribute(l, "tvgName")
      tvgId == extractAttribute(l, "tvgId")
      named == IF ~Truthy(afterComma) /\ Truthy(tvgName)
                 THEN tvgName ELSE afterComma
      rawName == IF ~Truthy(named) THEN UnknownChannel ELSE named
  IN [name |-> rawName,
      group |-> groupTitle,
      logo |-> OrElseAtom(tvgLogo, Undefined),
      tvgId |-> OrElseAtom(tvgId, Undefined)]

ReadExtinf ==
  /\ AtLine
  /\ UNCHANGED beyondParser
  /\ ~IsEmptyLine(line)
  /\ startsWith(line, "#EXTINF:")
  /\ currentChannel' = Descriptor(line)
  /\ lineNo' = lineNo + 1
  /\ UNCHANGED <<content, category, pc, epgUrl, groups, heap,
                 globalChannelMap, globalChannelIndex, log, result, returned>>

IsUrlLine(l) ==
  ~IsEmptyLine(l) /\ ~startsWith(l, "#EXTINF:") /\ ~startsWith(l, "#")

\* the URL line handled without the test for a pending descriptor
HasPendingAlways == TRUE

\* line 123: if (currentChannel.name)
HasPending == Truthy(currentChannel.name)

IgnoreUrl ==
  /\ AtLine
  /\ UNCHANGED beyondParser
  /\ IsUrlLine(line)
  /\ ~HasPending
  /\ lineNo' = lineNo + 1
  /\ UNCHANGED <<content, category, pc, epgUrl, groups, heap,
                 globalChannelMap, currentChannel, globalChannelIndex, log,
                 result, returned>>

\* the window taken without its two end positions
InWindowExclusive(index) == index > WindowLo /\ index < WindowHi

\* a missing hint treated like the always-group hint
shouldGroupByDefault(cat, index) ==
  IF cat = KANALER THEN index >= WindowLo /\ index <= WindowHi ELSE TRUE

\* lines 135-145
InWindow(index) == index >= WindowLo /\ index <= WindowHi

shouldGroup(cat, index) ==
  IF cat = FOTBOLL THEN TRUE
  ELSE IF cat = KANALER THEN InWindow(index)
  ELSE FALSE

\* the base name used as the key without lower-casing it
mapKeyCaseSensitive(baseName) == baseName

\* line 147
mapKey(baseName) == toLowerCase(baseName)

HasKey(map, key) == \E k \in DOMAIN map : map[k].key = key

GetKey(map, key) == map[CHOOSE k \in DOMAIN map : map[k].key = key].id

HasGroup(gs, title) == \E k \in DOMAIN gs : gs[k].title = title

\* the Channel is filed under the default title, whatever its group
PushToDefaultGroup(gs, title, id) ==
  IF \E k \in DOMAIN gs : gs[k].title = Uncategorized
    THEN [k \in DOMAIN gs |->
            IF gs[k].title = Uncategorized
              THEN [gs[k] EXCEPT !.channels = Append(@, id)]
              ELSE gs[k]]
    ELSE Append(gs, [title |-> Uncategorized, channels |-> <<id>>])

\* lines 186-189
PushToGroup(gs, title, id) ==
  IF HasGroup(gs, title)
    THEN [k \in DOMAIN gs |->
            IF gs[k].title = title
              THEN [gs[k] EXCEPT !.channels = Append(@, id)]
              ELSE gs[k]]
    ELSE Append(gs, [title |-> title, channels |-> <<id>>])

\* generateUUID: an id no other Channel has
generateUUID(h) == Len(h) + 1

(***************************************************************************)
(* The raw names of the documents the calls are run on, with the values    *)
(* of parseChannelInfo and generateFallbackLogo on them computed once      *)
(***************************************************************************)
SkySportsFHD ==
  <<"S", "k", "y", " ", "S", "p", "o", "r", "t", "s", " ", "F", "H", "D">>

SkySportsHD ==
  <<"S", "k", "y", " ", "S", "p", "o", "r", "t", "s", " ", "H", "D">>

SKYSPORTS == <<"S", "K", "Y", " ", "S", "P", "O", "R", "T", "S", " ">>

TV4 == <<"T", "V", "4">>

KnownNames ==
  {SkySportsFHD, SkySportsHD, trim(SKYSPORTS), TV4, UnknownChannel, <<"N">>}
    \cup {<<"N">> \o DigitsOf(k) : k \in 1..(2 * (WindowHi + 2))}

ChannelInfoOfKnown == [n \in KnownNames |-> parseChannelInfo(n)]

FallbackLogoOfKnown == [n \in KnownNames |-> generateFallbackLogo(n)]

channelInfo(rawName) ==
  IF rawName \in KnownNames
    THEN ChannelInfoOfKnown[rawName]
    ELSE parseChannelInfo(rawName)

fallbackLogo(rawName) ==
  IF rawName \in KnownNames
    THEN FallbackLogoOfKnown[rawName]
    ELSE generateFallbackLogo(rawName)

\* the counter restarted whenever the group changes
nextChannelIndexPerGroup ==
  IF log # <<>> /\ log[Len(log)].groupName # currentChannel.group
    THEN 1
    ELSE globalChannelIndex + 1

\* line 124: globalChannelIndex++
nextChannelIndex == globalChannelIndex + 1

\* the new variant put in front of the list
unshiftStream(streams, variant) == <<variant>> \o streams

\* a variant whose URL the Channel already lists is dropped
pushUnlessListed(streams, variant) ==
  IF \E k \in DOMAIN streams : streams[k].url = variant.url
    THEN streams
    ELSE Append(streams, variant)

\* lines 165-168: existingChannel.streams.push(...)
pushStream(streams, variant) == Append(streams, variant)

\* the merged Channel listed a second time, in the merged entry's group
groupsAfterMergeListed(gs, groupName, id) ==
  IF \E k \in DOMAIN gs : gs[k].title = groupName
    THEN [k \in DOMAIN gs |->
            IF gs[k].title = groupName
              THEN [gs[k] EXCEPT !.channels = Append(@, id)]
              ELSE gs[k]]
    ELSE Append(gs, [title |-> groupName, channels |-> <<id>>])

\* lines 150-169: a merge inserts nothing into the entry's own group
groupsAfterMerge(gs, groupName, id) == gs

\* what a URL line reads of the pending descriptor (lines 124-147)
Entry ==
  LET rawName == currentChannel.name
      info == channelInfo(rawName)
      index == nextChannelIndex
  IN [index |-> index,
      url |-> trimmedLine(line),
      rawName |-> rawName,
      groupName |-> OrElse(currentChannel.group, Uncategorized),
      logo |-> OrElseAtom(currentChannel.logo, fallbackLogo(rawName)),
      tvgId |-> currentChannel.tvgId,
      baseName |-> info.baseName,
      quality |-> info.quality,
      shouldGroup |-> shouldGroup(category, index),
      mapKey |-> mapKey(info.baseName)]

\* lines 150-169
\* the Channel takes the group, the logo and the tvg-id of the merged entry
rebrandedBy(existing, e, streams) ==
  [existing EXCEPT !.streams = streams, !.group = e.groupName,
                   !.logo = e.logo, !.tvgId = e.tvgId]

\* lines 155-168: of the existing Channel only streams is assigned
mergedInto(existing, e, streams) == [existing EXCEPT !.streams = streams]

MergeEntry ==
  /\ AtLine
  /\ UNCHANGED beyondParser
  /\ IsUrlLine(line)
  /\ HasPending
  /\ \E e \in {Entry} :
        /\ e.shouldGroup
        /\ HasKey(globalChannelMap, e.mapKey)
        /\ LET id == GetKey(globalChannelMap, e.mapKey)
               existing == heap[id]
               base == IF existing.streams = NoStreams
                         THEN <<[quality |-> DefaultQuality,
                                 url |-> existing.url]>>
                         ELSE existing.streams
           IN /\ heap' = [heap EXCEPT ![id] =
                            mergedInto(existing, e,
                                       pushStream(base, [quality |-> e.quality,
                                                         url |-> e.url]))]
              /\ groups' = groupsAfterMerge(groups, e.groupName, id)
              /\ log' = Append(log, [index |-> e.index, rawName |-> e.rawName,
                                     groupName |-> e.groupName, url |-> e.url,
                                     quality |-> e.quality, mapKey |-> e.mapKey,
                                     logo |-> e.logo, tvgId |-> e.tvgId,
                                     merged |-> TRUE, channel |-> id])
        /\ globalChannelIndex' = e.index
  /\ currentChannel' = EmptyChannel
  /\ lineNo' = lineNo + 1
  /\ UNCHANGED <<content, category, pc, epgUrl, globalChannelMap, result,
                 returned>>

\* lines 170-194
CreateEntry ==
  /\ AtLine
  /\ UNCHANGED beyondParser
  /\ IsUrlLine(line)
  /\ HasPending
  /\ \E e \in {Entry} :
     LET id == generateUUID(heap)
         newChannel ==
           [id |-> id,
            name |-> IF e.shouldGroup THEN e.baseName ELSE e.rawName,
            group |-> e.groupName,
            logo |-> e.logo,
            url |-> e.url,
            tvgId |-> e.tvgId,
            streams |-> <<[quality |-> IF e.shouldGroup THEN e.quality
                                        ELSE DefaultQuality,
                           url |-> e.url]>>]
     IN /\ ~(e.shouldGroup /\ HasKey(globalChannelMap, e.mapKey))
        /\ heap' = Append(heap, newChannel)
        /\ groups' = PushToGroup(groups, e.groupName, id)
        /\ globalChannelMap' =
             IF e.shouldGroup
               THEN Append(globalChannelMap, [key |-> e.mapKey, id |-> id])
               ELSE globalChannelMap
        /\ log' = Append(log, [index |-> e.index, rawName |-> e.rawName,
                               groupName |-> e.groupName, url |-> e.url,
                               quality |-> e.quality, mapKey |-> e.mapKey,
                               logo |-> e.logo, tvgId |-> e.tvgId,
                               merged |-> FALSE, channel |-> id])
        /\ globalChannelIndex' = e.index
  /\ currentChannel' = EmptyChannel
  /\ lineNo' = lineNo + 1
  /\ UNCHANGED <<content, category, pc, epgUrl, result, returned>>

\* UTF-16 code unit of the characters used in group titles
IndexIn(seq, c) == CHOOSE i \in DOMAIN seq : seq[i] = c

CharCode(c) ==
  IF c \in Range(DigitChars) THEN 47 + IndexIn(DigitChars, c)
  ELSE IF c \in Range(UpperAlpha) THEN 64 + IndexIn(UpperAlpha, c)
  ELSE IF c \in Range(LowerAlpha) THEN 96 + IndexIn(LowerAlpha, c)
  ELSE IF c = "_" THEN 95
  ELSE 32

\* the default comparison of Array.prototype.sort: by code units
RECURSIVE CodeUnitLess(_, _)
CodeUnitLess(a, b) ==
  IF b = <<>> THEN FALSE
  ELSE IF a = <<>> THEN TRUE
  ELSE IF CharCode(Head(a)) # CharCode(Head(b))
         THEN CharCode(Head(a)) < CharCode(Head(b))
         ELSE CodeUnitLess(Tail(a), Tail(b))

GroupBefore(g, h) == CodeUnitLess(g.title, h.title)

\* the groups left in insertion order
unsortedGroups(gs) == gs

\* lines 201-206: Object.keys(groups).sort().map(...)
sortedGroups(gs) == SortSeq(gs, GroupBefore)

\* line 208; the returned groups share the Channel objects of the heap
Return ==
  /\ pc = "lines"
  /\ UNCHANGED beyondParser
  /\ lineNo > linesLength(content)
  /\ result' = [groups |-> sortedGroups(groups), epgUrl |-> epgUrl]
  /\ returned' = Append(returned, [content |-> content, category |-> category,
                                   result |-> result'])
  /\ pc' = "done"
  /\ UNCHANGED <<content, category, lineNo, epgUrl, groups, heap,
                 globalChannelMap, currentChannel, globalChannelIndex, log>>

(***************************************************************************)
(* Documents and hints the calls are run on                                *)
(***************************************************************************)
MaxItems == 3

UrlOf(name) ==
  CASE name = SkySportsFHD -> "http://s/fhd"
    [] name = SkySportsHD -> "http://s/hd"
    [] name = SKYSPORTS -> "http://s/sd"
    [] OTHER -> "http://s/tv4"

GroupTitles == {<<"A">>, <<"B">>, <<"C">>}

\* a well-formed entry: a metadata line and its URL line
EntryItem(name, group) ==
  <<ExtinfLine(name, group, Null), TextLine(UrlOf(name))>>

EntryItems ==
  {EntryItem(n, g) : n \in {SkySportsFHD, SkySportsHD}, g \in GroupTitles}
    \cup {EntryItem(SKYSPORTS, <<"C">>), EntryItem(TV4, <<"A">>)}

\* lines that complete no entry of their own
StrayItems ==
  { <<BlankLine>>,
    <<CommentLine>>,
    <<TextLine("not an m3u file")>>,
    <<ExtinfLine(TV4, NoStr, Null)>>,
    <<HeaderLine("http://epg", Null)>> }

Items == EntryItems \cup StrayItems

RECURSIVE ItemSeqs(_)
ItemSeqs(n) ==
  IF n = 0 THEN {<<>>}
  ELSE LET shorter == ItemSeqs(n - 1)
       IN shorter \cup {s \o i : s \in shorter, i \in Items}

\* documents of at most MaxItems items
SmallDocs == {IF ls = <<>> THEN <<>> ELSE <<Block(0, ls)>> : ls \in ItemSeqs(MaxItems)}

Hints == {KANALER, FOTBOLL, Undefined}

\* two entries of one base name at chosen running positions, every other
\* entry a filler: the cases of the 115..248 window
FirstPositions == {50, WindowLo - 1, WindowLo, 120}

SecondPositions == {200, WindowHi, WindowHi + 1}

WindowDocs ==
  { <<Block(p - 1, EntryItem(SkySportsFHD, <<"B">>)),
      Block(q - p - 1, EntryItem(SkySportsHD, g))>> :
      p \in FirstPositions, q \in SecondPositions, g \in {<<"A">>} }

\* #EXTM3U lines at chosen places among the first six lines: the cases of
\* the header scan
HeaderKinds ==
  { HeaderLine("http://a", Null), HeaderLine(Null, "http://x"),
    HeaderLine("http://a", "http://x"), HeaderLine("", "http://x"),
    HeaderLine(Null, ""), HeaderLine(Null, Null) }

HeaderLines(p, h, q, g) ==
  [i \in 1..6 |-> IF i = p THEN h ELSE IF i = q THEN g ELSE CommentLine]
    \o EntryItem(TV4, <<"A">>)

HeaderDocs ==
  { <<Block(0, HeaderLines(p, h, q, g))>> :
      p \in 1..6, q \in 1..6, h \in HeaderKinds, g \in HeaderKinds }

\* one metadata line with or without a display name, a tvg-name and a
\* group-title, and its URL line
DescriptorLine(afterComma, tvgName, group) ==
  [ExtinfLine(afterComma, group, Null) EXCEPT !.attrs.tvgName = tvgName]

DescriptorDocs ==
  { <<Block(0, <<DescriptorLine(a, n, g), TextLine("http://s/x")>>)>> :
      a \in {NoStr, <<>>, <<" ">>, TV4},
      n \in {NoStr, <<>>, <<"N">>},
      g \in {NoStr, <<>>, <<"A">>} }

\* an entry with a tvg-id and a tvg-logo attribute
TaggedItem(name, group, tvgId, tvgLogo) ==
  <<[ExtinfLine(name, group, tvgId) EXCEPT !.attrs.tvgLogo = tvgLogo],
    TextLine(UrlOf(name))>>

\* "Sky Sports FHD" and then "Sky Sports HD" in another group, with or
\* without a tvg-id and a tvg-logo of its own
TaggedDocs ==
  { <<Block(0, TaggedItem(SkySportsFHD, <<"A">>, "sky.fhd", "http://logo/fhd")
                 \o TaggedItem(SkySportsHD, <<"B">>, tvgId, tvgLogo))>> :
      tvgId \in {Null, "sky.hd"}, tvgLogo \in {Null, "http://logo/hd"} }

Docs ==
  SmallDocs \cup WindowDocs \cup HeaderDocs \cup DescriptorDocs \cup TaggedDocs

\* null, as a program
NoProgram == [id |-> Null, title |-> NoStr, start |-> 0, end |-> 0]

NoChannel == [id |-> 0, tvgId |-> Undefined]

ZeroProgress == [num |-> 0, den |-> 1]

NotSearched == [title |-> NoStr, at |-> 0]

\* the highlights drawer as mounted: no match chosen
SidebarIdle ==
  /\ activeMatchId = Null
  /\ localMatches = <<>>
  /\ isSearching = FALSE
  /\ searched = NotSearched

\* no player is mounted and no guide is loaded
GuideIdle ==
  /\ epgData = <<>>
  /\ channel = NoChannel
  /\ now = 0
  /\ currentProgram = NoProgram
  /\ nextProgram = NoProgram
  /\ progress = ZeroProgress
  /\ readAt = <<>>
  /\ SidebarIdle

\* a guide without channels
EmptyGuide == <<>>

NotMerged == [provider |-> EmptyGuide, custom |-> EmptyGuide, done |-> FALSE]

NoCall == [url |-> "", category |-> Undefined, outcome |-> "none", text |-> <<>>]

\* fetchPlaylist has not been called
FetchIdle ==
  /\ fetchState = "idle"
  /\ fetchCall = NoCall
  /\ fetchResult = NoResult
  /\ fetches = 0

\* the App before its first load, built without EPG sources of its own
\* the playlist and the guide are empty: no load has filled them
NothingHeld == [playlist |-> Null, epgData |-> Null]

LoaderIdle ==
  /\ manualEpgUrl = ""
  /\ customEpgUrl = Undefined
  /\ loading = TRUE
  /\ playlist = <<>>
  /\ selectedGroup = Null
  /\ loads = 0
  /\ inFlight = {}
  /\ merged = NotMerged
  /\ activeCategory = KANALER
  /\ heldFor = NothingHeld

\* data that is no array
NoData == [isArray |-> FALSE, items |-> <<>>]

\* localStorage.getItem gives null
NoItem == [kind |-> "none", date |-> 0, timestamp |-> 0, data |-> NoData]

NotRead ==
  [done |-> FALSE, item |-> NoItem, ignoreTTL |-> FALSE, dateAt |-> 0,
   nowAt |-> 0, isNull |-> TRUE, data |-> NoData]

\* nothing is stored and getFromCache has not been called
CacheIdle ==
  /\ storage = NoItem
  /\ clockMs = 0
  /\ lastRead = NotRead

\* fetchFootballHighlights is not running
NoHighlightsCall ==
  [state |-> "idle", main |-> <<>>, before |-> NoItem, cleaned |-> NoItem,
   fetched |-> FALSE, merged |-> <<>>, startedAt |-> 0, readAt |-> 0,
   result |-> <<>>]

HighlightsIdle == highlightsCall = NoHighlightsCall

\* the result of pollLiveScores
PollResult(events, updatedMatches) ==
  [events |-> events, updatedMatches |-> updatedMatches]

\* pollLiveScores has not been called
NoScoresCall ==
  [done |-> FALSE, previous |-> <<>>,
   cached |-> [kind |-> "null", items |-> <<>>], kind |-> "failed",
   live |-> <<>>, details |-> <<"none", "none">>,
   result |-> PollResult(<<>>, <<>>)]

ScoresIdle == scoresCall = NoScoresCall

\* no notification: null
NoNotification ==
  [n |-> 0,
   event |-> [matchId |-> "", matchTitle |-> NoStr, score |-> <<0, 0>>,
              scorer |-> "", minute |-> "", channelToWatch |-> NoChannel],
   found |-> <<>>]

\* the latest event was not the Enter key
NotPressed ==
  [pressed |-> FALSE, teletext |-> FALSE, listWasOpen |-> FALSE,
   carried |-> NoChannel, selected |-> NoChannel, listOpen |-> FALSE]

\* the alerts of a player that has just been mounted
AlertsIdle ==
  /\ isGoalAlertEnabled = FALSE
  /\ notificationQueue = <<>>
  /\ currentNotification = NoNotification
  /\ notificationTimeout = FALSE
  /\ lastKnownMatches = <<>>
  /\ polls = EmptyBag
  /\ liveScore = 0
  /\ isListOpen = FALSE
  /\ showTeletext = FALSE
  /\ enqueued = 0
  /\ lastShown = 0
  /\ announced = {}
  /\ reannounced = {}
  /\ lastEnter = NotPressed

\* no key was pressed
NoKey == [key |-> "none", index |-> 0, variants |-> 0, listOpen |-> FALSE,
          teletext |-> FALSE]

\* no player is mounted: no stream is loaded and no timer is pending
StreamsIdle ==
  /\ activeStreamIndex = 0
  /\ videoSrc = <<>>
  /\ hls = "none"
  /\ nativeHls = TRUE
  /\ retryTimeoutRef = 0
  /\ stallTimeoutRef = 0
  /\ timers = {}
  /\ armed = 0
  /\ lastKey = NoKey

LaterIdle == HighlightsIdle /\ ScoresIdle /\ AlertsIdle /\ StreamsIdle

AppIdle == LoaderIdle /\ FetchIdle /\ CacheIdle /\ LaterIdle

\* parseChannelInfo has no state of its own between calls
NormalizerIdle ==
  /\ nameArg = <<>>
  /\ parsed = NotParsed
  /\ reparsed = NotParsed

Init ==
  /\ AppIdle
  /\ NormalizerIdle
  /\ GuideIdle
  /\ content \in Docs
  /\ category \in Hints
  /\ pc = "scan"
  /\ lineNo = 1
  /\ epgUrl = Null
  /\ groups = <<>>
  /\ heap = <<>>
  /\ globalChannelMap = <<>>
  /\ currentChannel = EmptyChannel
  /\ globalChannelIndex = 0
  /\ log = <<>>
  /\ result = NoResult
  /\ returned = <<>>

Next ==
  \/ ScanHeader
  \/ SkipEmpty
  \/ SkipComment
  \/ ReadExtinf
  \/ IgnoreUrl
  \/ MergeEntry
  \/ CreateEntry
  \/ Return

Spec == Init /\ [][Next]_vars

(***************************************************************************)
(* Several calls, one after the other (parseM3U is synchronous: a call     *)
(* runs to its return before another starts)                               *)
(***************************************************************************)
MaxCalls == 2

MaxCallItems == 1

CallItems ==
  { EntryItem(SkySportsFHD, <<"A">>) \o EntryItem(SkySportsHD, <<"B">>),
    EntryItem(SkySportsHD, <<"A">>), EntryItem(TV4, <<"A">>),
    <<BlankLine, CommentLine, TextLine("not an m3u file")>> }

RECURSIVE CallItemSeqs(_)
CallItemSeqs(n) ==
  IF n = 0 THEN {<<>>}
  ELSE LET shorter == CallItemSeqs(n - 1)
       IN shorter \cup {s \o i : s \in shorter, i \in CallItems}

CallDocs ==
  {IF ls = <<>> THEN <<>> ELSE <<Block(0, ls)>> : ls \in CallItemSeqs(MaxCallItems)}

CallHints == {FOTBOLL, Undefined}

StartCall ==
  /\ pc = "done"
  /\ UNCHANGED beyondParser
  /\ Len(returned) < MaxCalls
  /\ \E doc \in CallDocs, cat \in CallHints : EnterCall(doc, cat)
  /\ UNCHANGED <<heap, result, returned>>

InitCalls ==
  /\ AppIdle
  /\ NormalizerIdle
  /\ GuideIdle
  /\ content \in CallDocs
  /\ category \in CallHints
  /\ pc = "scan"
  /\ lineNo = 1
  /\ epgUrl = Null
  /\ groups = <<>>
  /\ heap = <<>>
  /\ globalChannelMap = <<>>
  /\ currentChannel = EmptyChannel
  /\ globalChannelIndex = 0
  /\ log = <<>>
  /\ result = NoResult
  /\ returned = <<>>

NextCalls ==
  \/ ScanHeader
  \/ SkipEmpty
  \/ SkipComment
  \/ ReadExtinf
  \/ IgnoreUrl
  \/ MergeEntry
  \/ CreateEntry
  \/ Return
  \/ StartCall

SpecCalls == InitCalls /\ [][NextCalls]_vars

(***************************************************************************)
(* parseChannelInfo on its own: the raw names parseM3U can pass it (line   *)
(* 132) are non-empty and trimmed (lines 105, 113, 114, 123).              *)
(***************************************************************************)
MaxNameLen == 5

NameChars == {"H", "D", "s", " ", "|", "-", "<sup-D>"}

RECURSIVE NamesUpTo(_)
NamesUpTo(n) ==
  IF n = 0 THEN {<<>>}
  ELSE LET shorter == NamesUpTo(n - 1)
       IN shorter \cup {Append(s, c) : s \in shorter, c \in NameChars}

RawNames == {s \in NamesUpTo(MaxNameLen) : s # <<>> /\ trim(s) = s}

\* no call of parseM3U is running
ParserIdle ==
  /\ content = <<>>
  /\ category = Undefined
  /\ pc = "idle"
  /\ lineNo = 1
  /\ epgUrl = Null
  /\ groups = <<>>
  /\ heap = <<>>
  /\ globalChannelMap = <<>>
  /\ currentChannel = EmptyChannel
  /\ globalChannelIndex = 0
  /\ log = <<>>
  /\ result = NoResult
  /\ returned = <<>>

InitNormalizer ==
  /\ AppIdle
  /\ ParserIdle
  /\ GuideIdle
  /\ nameArg \in RawNames
  /\ parsed = NotParsed
  /\ reparsed = NotParsed

\* line 132: const { baseName, quality } = parseChannelInfo(rawName)
Normalize ==
  /\ parsed = NotParsed
  /\ parsed' = parseChannelInfo(nameArg)
  /\ UNCHANGED <<beyondNormalizer, nameArg, reparsed>>

\* a second pass over the base name the first pass returned
Renormalize ==
  /\ parsed # NotParsed
  /\ reparsed = NotParsed
  /\ reparsed' = parseChannelInfo(parsed.baseName)
  /\ UNCHANGED <<beyondNormalizer, nameArg, parsed>>

NextNormalizer ==
  \/ Normalize
  \/ Renormalize

SpecNormalizer == InitNormalizer /\ [][NextNormalizer]_vars

(***************************************************************************)
(* The program guide: getCurrentProgram and getNextProgram (the            *)
(* Program-Time Resolver) and their caller updateEPG of VideoPlayer        *)
(***************************************************************************)
MaxTime == 3

MaxPrograms == 2

PostMatchShow ==
  <<"A", "r", "s", "e", "n", "a", "l", " ", "P", "o", "s", "t", "-", "M",
    "a", "t", "c", "h", " ", "S", "h", "o", "w">>

ArsenalChelsea ==
  <<"P", "r", "e", "m", "i", "e", "r", " ", "L", "e", "a", "g", "u", "e",
    ":", " ", "A", "r", "s", "e", "n", "a", "l", " ", "v", " ", "C", "h",
    "e", "l", "s", "e", "a">>

News ==
  <<"N", "e", "w", "s">>

GuideTitles == {PostMatchShow, ArsenalChelsea, News}

Program(id, title, start, end) ==
  [id |-> id, title |-> title, start |-> start, end |-> end]

\* the programs a guide can list for one channel: start < end
ProgramsOf(id) ==
  { p \in [id : {id}, title : {News}, start : 0..MaxTime, end : 0..MaxTime] :
      p.start < p.end }

TimeOrdered(s) == \A i \in 1..(Len(s) - 1) : s[i].start <= s[i + 1].start

\* the time-ordered sequences of at most n of them, overlaps included
RECURSIVE Timelines(_, _)
Timelines(id, n) ==
  IF n = 0 THEN {<<>>}
  ELSE LET shorter == Timelines(id, n - 1)
       IN shorter \cup
            {s \in {Append(t, p) : t \in shorter, p \in ProgramsOf(id)} :
               TimeOrdered(s)}

\* the guide: channel "a" with any timeline, channel "b" with none or one
\* all-day program
Guides ==
  { [a |-> ta, b |-> tb] :
      ta \in Timelines("a", MaxPrograms),
      tb \in {<<>>, <<Program("b", News, 0, MaxTime)>>} }

\* at most n programs back to back from instant 0, one per unit of time,
\* with any titles
RECURSIVE Schedules(_, _)
Schedules(id, n) ==
  IF n = 0 THEN {<<>>}
  ELSE LET shorter == Schedules(id, n - 1)
       IN shorter \cup
            {Append(t, Program(id, title, Len(t), Len(t) + 1)) :
               t \in {u \in shorter : Len(u) = n - 1}, title \in GuideTitles}

\* the guide of the title search: channel "a" with any schedule, channel "b"
\* with none or one all-day program
TitledGuides ==
  { [a |-> ta, b |-> tb] :
      ta \in Schedules("a", MaxPrograms),
      tb \in {<<>>, <<Program("b", ArsenalChelsea, 0, MaxTime)>>} }

\* the channels of the playlist: two in the guide, one without an EPG
\* linkage key, one whose key the guide does not know
GuideChannels ==
  << [id |-> 1, tvgId |-> "a"], [id |-> 2, tvgId |-> "b"],
     [id |-> 3, tvgId |-> Undefined], [id |-> 4, tvgId |-> "zz"] >>

\* the closed interval [start, end]
AiringThrough(p, t) == p.start <= t /\ t <= p.end

\* [start, end) contains t
Airing(p, t) == p.start <= t /\ t < p.end

\* the first containing entry wins
FirstFound(p, best) == FALSE

\* ties between overlapping entries: the latest start wins
LaterStart(p, best) == p.start > best.start

RECURSIVE currentFrom(_, _, _, _)
currentFrom(programs, t, i, best) ==
  IF i > Len(programs) THEN best
  ELSE LET p == programs[i]
       IN currentFrom(programs, t, i + 1,
            IF Airing(p, t) /\ (best = NoProgram \/ LaterStart(p, best))
              THEN p ELSE best)

getCurrentProgram(programs, t) == currentFrom(programs, t, 1, NoProgram)

\* an entry starting at t counts as upcoming
StartsAtOrAfter(p, t) == p.start >= t

\* strictly after t: an entry starting exactly at t is current, not next
StartsAfter(p, t) == p.start > t

\* the last upcoming entry wins
LastFound(p, best) == TRUE

\* the smallest start wins
EarlierStart(p, best) == p.start < best.start

RECURSIVE nextFrom(_, _, _, _)
nextFrom(programs, t, i, best) ==
  IF i > Len(programs) THEN best
  ELSE LET p == programs[i]
       IN nextFrom(programs, t, i + 1,
            IF StartsAfter(p, t) /\ (best = NoProgram \/ EarlierStart(p, best))
              THEN p ELSE best)

getNextProgram(programs, t) == nextFrom(programs, t, 1, NoProgram)

\* channel.tvgId && epgData[channel.tvgId]
HasGuide(c, epg) == TruthyAtom(c.tvgId) /\ c.tvgId \in DOMAIN epg

\* 0 / 0
NotANumber == [num |-> 0, den |-> 0]

FullProgress == [num |-> 100, den |-> 1]

\* Math.min(100, Math.max(0, (elapsed / total) * 100)) in IEEE 754
\* arithmetic: a division by zero gives an infinity, which is clamped, or,
\* for 0 / 0, a NaN, which Math.max and Math.min hand on
Percent(prog, t) ==
  LET total == prog.end - prog.start
      elapsed == t - prog.start
      n == IF total < 0 THEN 0 - elapsed ELSE elapsed
      d == IF total < 0 THEN 0 - total ELSE total
  IN IF total = 0
       THEN IF elapsed > 0 THEN FullProgress
            ELSE IF elapsed < 0 THEN ZeroProgress
            ELSE NotANumber
     ELSE IF n <= 0 THEN ZeroProgress
     ELSE IF n >= d THEN FullProgress
     ELSE [num |-> 100 * n, den |-> d]

InitGuide ==
  /\ AppIdle
  /\ ParserIdle
  /\ NormalizerIdle
  /\ epgData \in Guides
  /\ channel \in Range(GuideChannels)
  /\ now = 0
  /\ currentProgram = NoProgram
  /\ nextProgram = NoProgram
  /\ progress = ZeroProgress
  /\ readAt = <<>>
  /\ SidebarIdle

\* time passes
Tick ==
  /\ now < MaxTime
  /\ now' = now + 1
  /\ UNCHANGED <<beyondGuide, epgData, channel, currentProgram, nextProgram,
                 progress, readAt, activeMatchId, localMatches, isSearching,
                 searched>>

\* the clock read again, no earlier than t and at most one tick after now
ClockFrom(t) == {u \in t..(now + 1) : u <= MaxTime}

\* updateEPG, run on mount and every 30 s: the two lookups and the progress
\* computation read the clock one after the other
updateEPG ==
  \E t1 \in ClockFrom(now) : \E t2 \in ClockFrom(t1) : \E t3 \in ClockFrom(t2) :
    /\ IF HasGuide(channel, epgData)
         THEN \E prog \in {getCurrentProgram(epgData[channel.tvgId], t1)} :
                /\ currentProgram' = prog
                /\ nextProgram' = getNextProgram(epgData[channel.tvgId], t2)
                /\ progress' = IF prog # NoProgram THEN Percent(prog, t3)
                                ELSE ZeroProgress
         ELSE /\ currentProgram' = NoProgram
              /\ nextProgram' = NoProgram
              /\ progress' = ZeroProgress
    /\ readAt' = <<t1, t2>>
    /\ now' = t3
    /\ UNCHANGED <<beyondGuide, epgData, channel, activeMatchId, localMatches,
                   isSearching, searched>>

NextGuide ==
  \/ Tick
  \/ updateEPG

SpecGuide == InitGuide /\ [][NextGuide]_vars

(***************************************************************************)
(* ChannelItem of the channel list (part_002 lines 38-45): the progress of *)
(* the program it is handed as currentProg, computed at render             *)
(***************************************************************************)
\* the programs an item can be handed, those of no length included
ItemPrograms ==
  { p \in [id : {"a"}, title : {News}, start : 0..MaxTime, end : 0..MaxTime] :
      p.start <= p.end }

renderChannelItem ==
  \E t \in ClockFrom(now) :
    /\ progress' = IF currentProgram # NoProgram
                     THEN Percent(currentProgram, t)
                     ELSE ZeroProgress
    /\ readAt' = <<t>>
    /\ now' = t
    /\ UNCHANGED <<beyondGuide, epgData, channel, currentProgram, nextProgram,
                   activeMatchId, localMatches, isSearching, searched>>

InitItem ==
  /\ AppIdle
  /\ ParserIdle
  /\ NormalizerIdle
  /\ epgData = EmptyGuide
  /\ channel = NoChannel
  /\ now = 0
  /\ currentProgram \in ItemPrograms \cup {NoProgram}
  /\ nextProgram = NoProgram
  /\ progress = ZeroProgress
  /\ readAt = <<>>
  /\ SidebarIdle

NextItem ==
  \/ Tick
  \/ renderChannelItem

SpecItem == InitItem /\ [][NextItem]_vars

(***************************************************************************)
(* Matching a fixture title against the guide: isSameMatch of VideoPlayer  *)
(* and findLocalMatches (the Fuzzy Match Engine), called by the Sidebar    *)
(***************************************************************************)
\* String.prototype.includes
includes(hay, needle) ==
  \E i \in 0..(Len(hay) - Len(needle)) :
    SubSeq(hay, i + 1, i + Len(needle)) = needle

LeadingSpaces(s) == Len(s) - Len(DropLeadingSpace(s))

\* the length of the match of /\s+(?:vs|v)\s+/ at the start of s, 0 without one
SeparatorLen(s) ==
  LET k == LeadingSpaces(s)
      rest == DropLeadingSpace(s)
      afterVs == SubSeq(rest, 3, Len(rest))
      afterV == SubSeq(rest, 2, Len(rest))
  IN IF k = 0 THEN 0
     ELSE IF /\ Len(rest) >= 3
             /\ SubSeq(rest, 1, 2) = <<"v", "s">>
             /\ LeadingSpaces(afterVs) > 0
       THEN k + 2 + LeadingSpaces(afterVs)
     ELSE IF /\ Len(rest) >= 2
             /\ Head(rest) = "v"
             /\ LeadingSpaces(afterV) > 0
       THEN k + 1 + LeadingSpaces(afterV)
     ELSE 0

\* s.split(/\s+(?:vs|v)\s+/)
RECURSIVE SplitFrom(_, _)
SplitFrom(s, fragment) ==
  IF s = <<>> THEN <<fragment>>
  ELSE IF SeparatorLen(s) > 0
    THEN <<fragment>> \o SplitFrom(SubSeq(s, SeparatorLen(s) + 1, Len(s)), <<>>)
    ELSE SplitFrom(Tail(s), Append(fragment, Head(s)))

splitTeams(s) == SplitFrom(s, <<>>)

\* without the guard on the number of fragments
isSameMatchUnguarded(epgTitle, alertTitle) ==
  /\ Truthy(epgTitle)
  /\ Truthy(alertTitle)
  /\ LET teams == splitTeams(toLowerCase(alertTitle))
     IN \A i \in DOMAIN teams :
          includes(toLowerCase(epgTitle), trim(teams[i]))

\* part_003 lines 25-37
isSameMatch(epgTitle, alertTitle) ==
  /\ Truthy(epgTitle)
  /\ Truthy(alertTitle)
  /\ LET teams == splitTeams(toLowerCase(alertTitle))
     IN /\ Len(teams) >= 2
        /\ \A i \in DOMAIN teams :
             includes(toLowerCase(epgTitle), trim(teams[i]))

\* one team of the fixture is enough
namesATeam(title, matchTitle) ==
  LET teams == splitTeams(toLowerCase(matchTitle))
  IN /\ Len(teams) >= 2
     /\ \E i \in DOMAIN teams : includes(toLowerCase(title), trim(teams[i]))

\* the same fixture: every team fragment of the match title, trimmed, is a
\* substring of the program title, letter case aside
sameFixture(title, matchTitle) ==
  LET teams == splitTeams(toLowerCase(matchTitle))
  IN /\ Len(teams) >= 2
     /\ \A i \in DOMAIN teams : includes(toLowerCase(title), trim(teams[i]))

NoLocalMatch ==
  [channel |-> NoChannel, programTitle |-> NoStr, isLive |-> FALSE, start |-> 0]

LocalMatch(c, prog, isLive) ==
  [channel |-> c, programTitle |-> prog.title, isLive |-> isLive,
   start |-> prog.start]

\* a match of the next program reported as live
matchOnChannelAsLive(matchTitle, c, epg, t) ==
  IF ~HasGuide(c, epg) THEN NoLocalMatch
  ELSE IF epg[c.tvgId] = <<>> THEN NoLocalMatch
  ELSE LET prog == getCurrentProgram(epg[c.tvgId], t)
           next == getNextProgram(epg[c.tvgId], t)
       IN IF prog # NoProgram /\ sameFixture(prog.title, matchTitle)
            THEN LocalMatch(c, prog, TRUE)
          ELSE IF next # NoProgram /\ sameFixture(next.title, matchTitle)
            THEN LocalMatch(c, next, TRUE)
          ELSE NoLocalMatch

\* the current program first, the next program as a second pass
matchOnChannel(matchTitle, c, epg, t) ==
  IF ~HasGuide(c, epg) THEN NoLocalMatch
  ELSE IF epg[c.tvgId] = <<>> THEN NoLocalMatch
  ELSE LET prog == getCurrentProgram(epg[c.tvgId], t)
           next == getNextProgram(epg[c.tvgId], t)
       IN IF prog # NoProgram /\ sameFixture(prog.title, matchTitle)
            THEN LocalMatch(c, prog, TRUE)
          ELSE IF next # NoProgram /\ sameFixture(next.title, matchTitle)
            THEN LocalMatch(c, next, FALSE)
          ELSE NoLocalMatch

IsLiveMatch(m) == m # NoLocalMatch /\ m.isLive

IsUpcomingMatch(m) == m # NoLocalMatch /\ ~m.isLive

\* every qualifying channel, those live now after the others
findUpcomingFirst(matchTitle, channels, epg, t) ==
  LET found == [i \in DOMAIN channels |->
                  matchOnChannel(matchTitle, channels[i], epg, t)]
  IN SelectSeq(found, IsUpcomingMatch) \o SelectSeq(found, IsLiveMatch)

\* every qualifying channel, those live now before the others
findLocalMatches(matchTitle, channels, epg, t) ==
  LET found == [i \in DOMAIN channels |->
                  matchOnChannel(matchTitle, channels[i], epg, t)]
  IN SelectSeq(found, IsLiveMatch) \o SelectSeq(found, IsUpcomingMatch)

ArsenalVsChelsea ==
  <<"A", "r", "s", "e", "n", "a", "l", " ", "v", "s", " ", "C", "h", "e",
    "l", "s", "e", "a">>

ChelseaVArsenal ==
  <<"C", "H", "E", "L", "S", "E", "A", " ", " ", "V", " ", " ", "A", "R",
    "S", "E", "N", "A", "L">>

ArsenalOnly ==
  <<"A", "r", "s", "e", "n", "a", "l">>

\* the highlights of the day: HighlightMatch.id and HighlightMatch.match
Highlights ==
  { [id |-> "m1", match |-> ArsenalVsChelsea],
    [id |-> "m2", match |-> ChelseaVArsenal],
    [id |-> "m3", match |-> ArsenalOnly] }

\* handleMatchClick(matchId, matchTitle) of Sidebar
handleMatchClick ==
  \E h \in Highlights :
    IF activeMatchId = h.id /\ Len(localMatches) > 0
      THEN UNCHANGED vars
      ELSE /\ activeMatchId' = h.id
           /\ localMatches' = findLocalMatches(h.match, GuideChannels, epgData, now)
           /\ isSearching' = FALSE
           /\ searched' = [title |-> h.match, at |-> now]
           /\ UNCHANGED <<beyondGuide, epgData, channel, now, currentProgram,
                          nextProgram, progress, readAt>>

\* the drawer over a loaded guide
InitSidebar ==
  /\ AppIdle
  /\ ParserIdle
  /\ NormalizerIdle
  /\ epgData \in TitledGuides
  /\ channel = NoChannel
  /\ now = 0
  /\ currentProgram = NoProgram
  /\ nextProgram = NoProgram
  /\ progress = ZeroProgress
  /\ readAt = <<>>
  /\ SidebarIdle

NextSidebar ==
  \/ Tick
  \/ handleMatchClick

SpecSidebar == InitSidebar /\ [][NextSidebar]_vars

(***************************************************************************)
(* loadData of App: the playlist, then the guide from a provider source    *)
(* and a custom source (VideoPlayer.tsx lines 826-876).  The focus state   *)
(* of the list, which loadData resets to constants, is left out.           *)
(***************************************************************************)
MaxLoads == 2

\* what fetchPlaylist can resolve to: nothing, one group with a guide URL
\* in the header, two groups without one
PlaylistResults ==
  { [groups |-> <<>>, epgUrl |-> Null],
    [groups |-> <<[title |-> <<"A">>, channels |-> <<1>>]>>,
     epgUrl |-> "http://epg"],
    [groups |-> <<[title |-> <<"A">>, channels |-> <<1>>],
                  [title |-> <<"B">>, channels |-> <<2>>]>>,
     epgUrl |-> Null] }

\* what fetchEPG can resolve to: a map over some of the keys
GuidesOver(keys, lists) ==
  UNION { IF ks = {} THEN {EmptyGuide} ELSE [ks -> lists] : ks \in SUBSET keys }

ProviderGuides ==
  GuidesOver({"a", "b"},
             { <<Program("p", News, 0, 1)>>,
               <<Program("p", News, 0, 1), Program("p", PostMatchShow, 1, 2)>> })

CustomGuides ==
  GuidesOver({"a", "b"}, { <<>>, <<Program("c", ArsenalChelsea, 0, 2)>> })

\* the entries of both sources side by side under a shared key
mergePerProgram(providerData, customData) ==
  LET keys == DOMAIN providerData \cup DOMAIN customData
  IN IF keys = {} THEN EmptyGuide
     ELSE [k \in keys |->
             IF k \in DOMAIN customData /\ k \in DOMAIN providerData
               THEN providerData[k] \o customData[k]
             ELSE IF k \in DOMAIN customData THEN customData[k]
             ELSE providerData[k]]

\* line 870: { ...providerData, ...customData }
mergeSources(providerData, customData) ==
  LET keys == DOMAIN providerData \cup DOMAIN customData
  IN IF keys = {} THEN EmptyGuide
     ELSE [k \in keys |->
             IF k \in DOMAIN customData THEN customData[k]
             ELSE providerData[k]]

\* a run of loadData at an await, with the category it loads and the URL of
\* its provider source
Load(id, category_, awaiting, source) ==
  [id |-> id, category |-> category_, awaiting |-> awaiting, source |-> source]

\* line 1095: the other category is chosen in the sidebar
otherCategory(c) == IF c = KANALER THEN FOTBOLL ELSE KANALER

\* lines 826-835 and 876: the effect runs loadData on mount and whenever
\* activeCategory has changed, up to the await of fetchPlaylist
loadData ==
  /\ loads < MaxLoads
  /\ loads' = loads + 1
  /\ activeCategory' = IF loads = 0 THEN activeCategory
                                    ELSE otherCategory(activeCategory)
  /\ loading' = TRUE
  /\ playlist' = <<>>
  /\ epgData' = EmptyGuide
  /\ selectedGroup' = Null
  /\ merged' = NotMerged
  /\ heldFor' = NothingHeld
  /\ inFlight' = inFlight \cup {Load(loads', activeCategory', "playlist", Null)}
  /\ UNCHANGED <<beyondLoader, manualEpgUrl, customEpgUrl,
                 channel, now, currentProgram, nextProgram, progress, readAt,
                 activeMatchId, localMatches, isSearching, searched>>

\* line 848: MANUAL_EPG_URL || epgUrl
providerSource(url) == IF TruthyAtom(manualEpgUrl) THEN manualEpgUrl ELSE url

\* lines 835-865: fetchPlaylist has resolved and both fetches of the guide
\* are started
playlistFetched ==
  \E l \in inFlight, r \in PlaylistResults :
    /\ l.awaiting = "playlist"
    /\ playlist' = r.groups
    /\ loading' = FALSE
    /\ selectedGroup' = IF Len(r.groups) = 1 THEN r.groups[1] ELSE selectedGroup
    /\ heldFor' = [heldFor EXCEPT !.playlist = l.category]
    /\ inFlight' = (inFlight \ {l}) \cup
                     {Load(l.id, l.category, "epg", providerSource(r.epgUrl))}
    /\ UNCHANGED <<beyondLoader, guideVars, manualEpgUrl,
                   customEpgUrl, loads, merged, activeCategory>>

\* lines 868-873: Promise.all has resolved, a source without URL to {}
epgLoaded ==
  \E l \in inFlight, providerData \in ProviderGuides, customData \in CustomGuides :
    /\ l.awaiting = "epg"
    /\ TruthyAtom(l.source) \/ providerData = EmptyGuide
    /\ TruthyAtom(customEpgUrl) \/ customData = EmptyGuide
    /\ epgData' = mergeSources(providerData, customData)
    /\ merged' = [provider |-> providerData, custom |-> customData,
                  done |-> TRUE]
    /\ heldFor' = [heldFor EXCEPT !.epgData = l.category]
    /\ inFlight' = inFlight \ {l}
    /\ UNCHANGED <<beyondLoader, manualEpgUrl, customEpgUrl,
                   loading, playlist, selectedGroup, loads, activeCategory,
                   channel, now, currentProgram, nextProgram, progress, readAt,
                   activeMatchId, localMatches, isSearching, searched>>

InitLoader ==
  /\ ParserIdle
  /\ NormalizerIdle
  /\ GuideIdle
  /\ FetchIdle
  /\ CacheIdle
  /\ LaterIdle
  /\ manualEpgUrl \in {"", "http://manual"}
  /\ customEpgUrl \in {Undefined, "http://custom"}
  /\ loading = TRUE
  /\ playlist = <<>>
  /\ selectedGroup = Null
  /\ loads = 0
  /\ inFlight = {}
  /\ merged = NotMerged
  /\ activeCategory = KANALER
  /\ heldFor = NothingHeld

NextLoader ==
  \/ loadData
  \/ playlistFetched
  \/ epgLoaded

SpecLoader == InitLoader /\ [][NextLoader]_vars

(***************************************************************************)
(* fetchPlaylist (m3uService.ts lines 211-222): the download of a playlist *)
(* and its parse by parseM3U, one call at a time                           *)
(***************************************************************************)
MaxFetches == 2

PlaylistUrls == {"", "http://list"}

\* the bodies a server can answer with
FetchedTexts ==
  { <<>>,
    <<Block(0, EntryItem(SkySportsHD, <<"A">>))>>,
    <<Block(0, EntryItem(SkySportsFHD, <<"A">>) \o EntryItem(SkySportsHD, <<"B">>))>>,
    <<Block(0, <<BlankLine, CommentLine, TextLine("not an m3u file")>>)>> }

\* lines 212 and 220
EmptyPlaylist == [groups |-> <<>>, epgUrl |-> Null]

\* the statements of the try block, lines 213-217
TryBlock == {"fetch", "ok", "text", "parse"}

\* an exception thrown at a statement: caught at lines 218-221 if the
\* statement is in the try block
Thrown(at, outcome) ==
  /\ fetchCall' = [fetchCall EXCEPT !.outcome = outcome]
  /\ IF at \in TryBlock
       THEN fetchState' = "resolved" /\ fetchResult' = EmptyPlaylist
       ELSE fetchState' = "rejected" /\ fetchResult' = NoResult
  /\ UNCHANGED <<parserVars, fetches>>

\* lines 211-214, up to the await of fetch
fetchPlaylist ==
  /\ fetchState \in {"idle", "resolved"}
  /\ fetches < MaxFetches
  /\ fetches' = fetches + 1
  /\ \E url \in PlaylistUrls, cat \in CallHints :
       /\ fetchCall' = [url |-> url, category |-> cat,
                        outcome |-> IF url = "" THEN "no url" ELSE "none",
                        text |-> <<>>]
       /\ IF url = ""
            THEN fetchState' = "resolved" /\ fetchResult' = EmptyPlaylist
            ELSE fetchState' = "fetch" /\ fetchResult' = NoResult
  /\ UNCHANGED <<beyondFetch, parserVars>>

\* fetch rejects: no network, no such host
fetchFailed ==
  /\ fetchState = "fetch"
  /\ Thrown("fetch", "network")
  /\ UNCHANGED beyondFetch

\* every response is read
alwaysRead(response) == TRUE

\* line 215
okToRead(response) == response.ok

\* lines 215-217: a response has arrived; its body is read if it is OK, and
\* parseM3U is entered with the text and the hint of the call
responded ==
  /\ fetchState = "fetch"
  /\ UNCHANGED beyondFetch
  /\ \E response \in [ok : BOOLEAN, body : FetchedTexts, readable : BOOLEAN] :
       IF ~okToRead(response) THEN Thrown("ok", "not ok")
       ELSE IF ~response.readable THEN Thrown("text", "network")
       ELSE /\ fetchCall' = [fetchCall EXCEPT
                               !.outcome = IF response.ok THEN "ok" ELSE "not ok",
                               !.text = response.body]
            /\ EnterCall(response.body, fetchCall.category)
            /\ fetchState' = "parse"
            /\ UNCHANGED <<heap, result, returned, fetchResult, fetches>>

\* line 217: parseM3U has returned
parsedPlaylist ==
  /\ fetchState = "parse"
  /\ pc = "done"
  /\ fetchResult' = result
  /\ fetchState' = "resolved"
  /\ UNCHANGED <<beyondFetch, parserVars, fetchCall, fetches>>

InitFetch ==
  /\ ParserIdle
  /\ NormalizerIdle
  /\ GuideIdle
  /\ LoaderIdle
  /\ FetchIdle
  /\ CacheIdle
  /\ LaterIdle

NextFetch ==
  \/ fetchPlaylist
  \/ fetchFailed
  \/ responded
  \/ ScanHeader
  \/ SkipEmpty
  \/ SkipComment
  \/ ReadExtinf
  \/ IgnoreUrl
  \/ MergeEntry
  \/ CreateEntry
  \/ Return
  \/ parsedPlaylist

SpecFetch == InitFetch /\ [][NextFetch]_vars

(***************************************************************************)
(* The cache of the highlights: getFromCache and saveToCache               *)
(* (geminiService.ts lines 16-99, the same text in part_001)               *)
(***************************************************************************)
MaxMatches == 2

CACHE_DURATION_DEFAULT == 15 * 60 * 1000

CACHE_DURATION_LIVE == 60 * 1000

DayMs == 24 * 60 * 60 * 1000

\* Date.prototype.getTimezoneOffset, in minutes: UTC+1
TimezoneOffset == 0 - 60

\* getLocalDateString: the local calendar day, as the number of the day
getLocalDateString(t) == (t - TimezoneOffset * 60 * 1000) \div DayMs

\* the first instant of the next local day
LocalMidnight == DayMs + TimezoneOffset * 60 * 1000

\* the instants the clock is read at
Instants ==
  { 0, 1, CACHE_DURATION_LIVE, CACHE_DURATION_LIVE + 1, CACHE_DURATION_DEFAULT,
    CACHE_DURATION_DEFAULT + 1, LocalMidnight - 1, LocalMidnight }

\* HighlightMatch.rawDate: absent, not a date, or an instant
NoRawDate == [present |-> FALSE, valid |-> FALSE, at |-> 0]

BadRawDate == [present |-> TRUE, valid |-> FALSE, at |-> 0]

KickoffAt(t) == [present |-> TRUE, valid |-> TRUE, at |-> t]

Match(status, rawDate) == [status |-> status, rawDate |-> rawDate]

CachedMatches ==
  { Match("SCHEDULED", KickoffAt(CACHE_DURATION_LIVE)),
    Match("SCHEDULED", BadRawDate),
    Match("TIMED", KickoffAt(CACHE_DURATION_LIVE)),
    Match("IN_PLAY", KickoffAt(0)),
    Match("PAUSED", NoRawDate),
    Match("FINISHED", KickoffAt(0)) }

RECURSIVE MatchLists(_)
MatchLists(n) ==
  IF n = 0 THEN {<<>>}
  ELSE LET shorter == MatchLists(n - 1)
       IN shorter \cup {Append(l, m) : l \in shorter, m \in CachedMatches}

\* what is saved: a list of matches, or something that is no array
CachedData ==
  {[isArray |-> TRUE, items |-> l] : l \in MatchLists(MaxMatches)} \cup {NoData}

\* the kick-off counts once it has passed
pastKickoff(t, kickoff) == t > kickoff

\* line 55: now >= kickoff
reachedKickoff(t, kickoff) == t >= kickoff

\* lines 49-59; the time of a rawDate that is no date is NaN, and no
\* comparison with NaN holds
hasPendingKickoff(matches, t) ==
  \E i \in DOMAIN matches :
    /\ matches[i].status \in {"SCHEDULED", "TIMED"}
    /\ matches[i].rawDate.present
    /\ matches[i].rawDate.valid
    /\ reachedKickoff(t, matches[i].rawDate.at)

\* lines 64-69
hasLiveActivity(matches) ==
  \E i \in DOMAIN matches : matches[i].status \in {"IN_PLAY", "PAUSED"}

\* lines 42, 71-73
effectiveTTL(data) ==
  IF data.isArray /\ hasLiveActivity(data.items)
    THEN CACHE_DURATION_LIVE
    ELSE CACHE_DURATION_DEFAULT

NullValue == [isNull |-> TRUE, data |-> NoData]

Value(data) == [isNull |-> FALSE, data |-> data]

\* lines 27-86, with the clock read as today by getLocalDateString and as t
\* by Date.now(); an item that JSON.parse rejects, or parses to null, throws
\* inside the try block
getFromCache(item, ignoreTTL, today, t) ==
  IF item.kind = "none" THEN NullValue
  ELSE IF item.kind \in {"garbage", "null"} THEN NullValue
  ELSE IF item.date # today THEN NullValue
  ELSE IF ignoreTTL THEN Value(item.data)
  ELSE IF item.data.isArray /\ hasPendingKickoff(item.data.items, t)
    THEN NullValue
  ELSE IF t - item.timestamp > effectiveTTL(item.data) THEN NullValue
  ELSE Value(item.data)

LaterInstants(t) == {u \in Instants : u >= t}

\* time passes
advance ==
  /\ \E t \in LaterInstants(clockMs) \ {clockMs} : clockMs' = t
  /\ lastRead' = NotRead
  /\ UNCHANGED <<beyondCache, storage>>

\* lines 88-99
saveToCache ==
  /\ \E data \in CachedData :
       storage' = [kind |-> "entry", date |-> getLocalDateString(clockMs),
                   timestamp |-> clockMs, data |-> data]
  /\ lastRead' = NotRead
  /\ UNCHANGED <<beyondCache, clockMs>>

\* a call of getFromCache(CACHE_KEY, ignoreTTL)
readCache ==
  \E ignoreTTL \in BOOLEAN, t \in LaterInstants(clockMs) :
    /\ \A u \in LaterInstants(clockMs) : u >= t \/ u = clockMs
    /\ lastRead' =
         [done |-> TRUE, item |-> storage, ignoreTTL |-> ignoreTTL,
          dateAt |-> clockMs, nowAt |-> t,
          isNull |-> getFromCache(storage, ignoreTTL,
                                  getLocalDateString(clockMs), t).isNull,
          data |-> getFromCache(storage, ignoreTTL,
                                getLocalDateString(clockMs), t).data]
    /\ clockMs' = t
    /\ UNCHANGED <<beyondCache, storage>>

\* what the browser can hold under the key before the first save: nothing,
\* text that is no JSON, or the JSON text null
InitCache ==
  /\ ParserIdle
  /\ NormalizerIdle
  /\ GuideIdle
  /\ LoaderIdle
  /\ FetchIdle
  /\ LaterIdle
  /\ storage \in {[NoItem EXCEPT !.kind = k] : k \in {"none", "garbage", "null"}}
  /\ clockMs = 0
  /\ lastRead = NotRead

NextCache ==
  \/ advance
  \/ saveToCache
  \/ readCache

SpecCache == InitCache /\ [][NextCache]_vars

(***************************************************************************)
(* fetchFootballHighlights (geminiService.ts lines 187-395): the cleanup   *)
(* of the cache, the fresh read, the two upstream fetches, the save or the *)
(* stale read.  Of the processing of the list the 12-hour filter is        *)
(* modelled; the filter by league and the ranking are left out.            *)
(***************************************************************************)
\* what an upstream fetch can give; a failed fetch gives no match
FetchedLists ==
  { <<>>,
    <<Match("SCHEDULED", KickoffAt(CACHE_DURATION_LIVE))>>,
    <<Match("IN_PLAY", KickoffAt(0))>> }

\* lines 100-126: an item of another day, or one that is no entry, is removed
cleanupOldCache(item, today) ==
  IF item.kind = "none" THEN item
  ELSE IF item.kind = "entry" /\ item.date = today THEN item
  ELSE NoItem

\* lines 301-318: a match is kept for 12 hours after its start
StillShown(m, t) ==
  \/ m.status \in {"IN_PLAY", "PAUSED"}
  \/ ~m.rawDate.present
  \/ m.rawDate.valid /\ t < m.rawDate.at + 720 * 60000

RECURSIVE validMatches(_, _)
validMatches(matches, t) ==
  IF matches = <<>> THEN <<>>
  ELSE (IF StillShown(Head(matches), t) THEN <<Head(matches)>> ELSE <<>>)
         \o validMatches(Tail(matches), t)

\* the list is saved whatever it holds
saveAlways(matches) == TRUE

\* line 288: if (matches.length > 0)
worthSaving(matches) == Len(matches) > 0

\* lines 187-196: the cleanup and the fresh read; the call returns the
\* cached list, processed, or goes on to the primary fetch
startHighlights ==
  /\ highlightsCall.state \in {"idle", "done"}
  /\ \E cleaned \in {cleanupOldCache(storage, getLocalDateString(clockMs))} :
     \E cached \in {getFromCache(cleaned, FALSE, getLocalDateString(clockMs),
                                  clockMs)} :
       /\ storage' = cleaned
       /\ highlightsCall' =
            IF ~cached.isNull /\ Len(cached.data.items) > 0
              THEN [NoHighlightsCall EXCEPT
                      !.state = "done", !.before = storage, !.cleaned = cleaned,
                      !.startedAt = clockMs, !.readAt = clockMs,
                      !.result = validMatches(cached.data.items, clockMs)]
              ELSE [NoHighlightsCall EXCEPT
                      !.state = "primary", !.before = storage,
                      !.cleaned = cleaned, !.startedAt = clockMs]
  /\ lastRead' = NotRead
  /\ UNCHANGED <<beyondHighlights, clockMs, scoresVars, alertVars>>

\* lines 213-273: the primary fetch has settled
primaryFetched ==
  /\ highlightsCall.state = "primary"
  /\ \E mainMatches \in FetchedLists :
       highlightsCall' = [highlightsCall EXCEPT !.state = "secondary",
                                                !.main = mainMatches]
  /\ UNCHANGED <<beyondHighlights, cacheVars, scoresVars, alertVars>>

\* lines 277-318: the secondary fetch has settled; the merged list is saved
\* and processed, or the stale cache is returned as it is
secondaryFetched ==
  /\ highlightsCall.state = "secondary"
  /\ \E extraMatches \in FetchedLists :
     \E matches \in {highlightsCall.main \o extraMatches} :
     \E stale \in {getFromCache(storage, TRUE, getLocalDateString(clockMs),
                                 clockMs)} :
       /\ storage' =
            IF worthSaving(matches)
              THEN [kind |-> "entry", date |-> getLocalDateString(clockMs),
                    timestamp |-> clockMs,
                    data |-> [isArray |-> TRUE, items |-> matches]]
              ELSE storage
       /\ highlightsCall' =
            [highlightsCall EXCEPT
               !.state = "done", !.fetched = TRUE, !.merged = matches,
               !.readAt = clockMs,
               !.result = IF Len(matches) = 0 /\ ~stale.isNull
                            THEN stale.data.items
                            ELSE validMatches(matches, clockMs)]
  /\ lastRead' = NotRead
  /\ UNCHANGED <<beyondHighlights, clockMs, scoresVars, alertVars>>

\* time passes while the drawer is open
wait ==
  /\ \E t \in LaterInstants(clockMs) \ {clockMs} : clockMs' = t
  /\ UNCHANGED <<beyondHighlights, storage, lastRead, highlightsCall,
                 scoresVars, alertVars>>

InitHighlights ==
  /\ ParserIdle
  /\ NormalizerIdle
  /\ GuideIdle
  /\ LoaderIdle
  /\ FetchIdle
  /\ LaterIdle
  /\ storage \in {[NoItem EXCEPT !.kind = k] : k \in {"none", "garbage", "null"}}
  /\ clockMs = 0
  /\ lastRead = NotRead

NextHighlights ==
  \/ startHighlights
  \/ primaryFetched
  \/ secondaryFetched
  \/ wait

SpecHighlights == InitHighlights /\ [][NextHighlights]_vars

(***************************************************************************)
(* pollLiveScores (part_001 lines 313-399).  A score is a number or null;  *)
(* the score text `${home} - ${away}` of an event is kept as the pair.     *)
(***************************************************************************)
MaxScore == 2

\* null, where a score is expected
NullScore == 0 - 1

Scores == {NullScore} \cup 0..MaxScore

\* a match of the list the player tracks (HighlightMatch)
Tracked(id, title, homeScore, awayScore) ==
  [id |-> id, match |-> title, status |-> "IN_PLAY",
   homeScore |-> homeScore, awayScore |-> awayScore]

\* a match of the live response, with score.fullTime.home and .away
Live(id, status, home, away) ==
  [id |-> id, status |-> status, home |-> home, away |-> away]

TrackedFirst == {Tracked("m1", ArsenalVsChelsea, h, a) : h, a \in Scores}

TrackedSecond == Tracked("m2", ArsenalOnly, 1, 1)

TrackedLists ==
  {<<>>} \cup {<<m>> : m \in TrackedFirst}
         \cup {<<m, TrackedSecond>> : m \in TrackedFirst}

LiveFirst == {Live("m1", "PAUSED", h, a) : h, a \in Scores}

LiveSecond == {Live("m2", "IN_PLAY", h, 1) : h \in 0..MaxScore}

\* the lists of a response; the last list names a match twice
LiveLists ==
  {<<>>} \cup {<<m>> : m \in LiveFirst \cup LiveSecond}
         \cup {<<m, n>> : m \in LiveFirst, n \in LiveSecond}
         \cup {<<Live("m1", "IN_PLAY", 0, 0), Live("m1", "IN_PLAY", 1, 0)>>}

\* what the request can come to: a rejected fetch or a body that is no JSON,
\* a status outside 2xx, a body without matches, a list of matches
ResponseKinds == {"failed", "notOk", "noMatches", "ok"}

\* what the request for the details of a match can come to
DetailOutcomes == {"none", "named", "unnamed"}

\* the score as given
asGiven(score) == score

\* lines 345-348: score ?? 0
orZero(score) == IF score = NullScore THEN 0 ELSE score

\* lines 338-342: Map.get after the sets of forEach, the last set wins
RECURSIVE liveMatchOf(_, _)
liveMatchOf(live, id) ==
  IF live = <<>> THEN Undefined
  ELSE IF live[Len(live)].id = id THEN live[Len(live)]
  ELSE liveMatchOf(SubSeq(live, 1, Len(live) - 1), id)

IsListed(live, id) == \E i \in DOMAIN live : live[i].id = id

GoalEvent(prevMatch, home, away, scorer, minute) ==
  [matchId |-> prevMatch.id, matchTitle |-> prevMatch.match,
   score |-> <<home, away>>, scorer |-> scorer, minute |-> minute,
   channelToWatch |-> NoChannel]

\* lines 350-366: the events that one tracked match gives
eventsOf(prevMatch, live) ==
  IF ~IsListed(live, prevMatch.id) THEN <<>>
  ELSE LET liveMatch == liveMatchOf(live, prevMatch.id)
           newHomeScore == orZero(liveMatch.home)
           newAwayScore == orZero(liveMatch.away)
           oldHomeScore == orZero(prevMatch.homeScore)
           oldAwayScore == orZero(prevMatch.awayScore)
       IN IF newHomeScore > oldHomeScore \/ newAwayScore > oldAwayScore
            THEN <<GoalEvent(prevMatch, newHomeScore, newAwayScore,
                             "Checking...", "LIVE")>>
          ELSE IF newHomeScore < oldHomeScore \/ newAwayScore < oldAwayScore
            THEN <<GoalEvent(prevMatch, newHomeScore, newAwayScore,
                             "Goal Disallowed (VAR)", "VAR")>>
          ELSE <<>>

\* lines 341-374: the tracked match after the response
updatedMatch(prevMatch, live) ==
  IF ~IsListed(live, prevMatch.id) THEN prevMatch
  ELSE LET liveMatch == liveMatchOf(live, prevMatch.id)
       IN [prevMatch EXCEPT !.status = liveMatch.status,
                            !.homeScore = orZero(liveMatch.home),
                            !.awayScore = orZero(liveMatch.away)]

RECURSIVE goalEvents(_, _)
goalEvents(baselineMatches, live) ==
  IF baselineMatches = <<>> THEN <<>>
  ELSE eventsOf(Head(baselineMatches), live)
         \o goalEvents(Tail(baselineMatches), live)

\* lines 376-392: the scorer and the minute of the last goal, when the
\* details of the match arrive
withDetails(event, outcome) ==
  IF event.minute = "VAR" \/ outcome = "none" THEN event
  ELSE [event EXCEPT !.scorer = IF outcome = "named" THEN "Isak" ELSE "Goal!",
                     !.minute = "88'"]

\* lines 314-320: the cached list stands in for an empty list
baselineOf(previousMatches, cached) ==
  IF Len(previousMatches) = 0 /\ cached.kind = "entry"
    THEN cached.items
    ELSE previousMatches

\* pollLiveScores(previousMatches), given what getFromCache(CACHE_KEY, true)
\* returns, what the request comes to and what the detail requests come to
pollLiveScores(previousMatches, cached, kind, live, details) ==
  LET baselineMatches == baselineOf(previousMatches, cached)
  IN IF kind # "ok" THEN PollResult(<<>>, baselineMatches)
     ELSE LET events == goalEvents(baselineMatches, live)
          IN PollResult(
               [i \in DOMAIN events |-> withDetails(events[i], details[i])],
               [i \in DOMAIN baselineMatches |->
                  updatedMatch(baselineMatches[i], live)])

\* the value of getFromCache(CACHE_KEY, true): null or the cached list
NothingCached == [kind |-> "null", items |-> <<>>]

CachedLists ==
  {NothingCached} \cup
    {[kind |-> "entry", items |-> l] : l \in TrackedLists \ {<<>>}}

\* the call of pollLiveScores with the inputs chosen
polled ==
  /\ ~scoresCall.done
  /\ scoresCall' =
       [scoresCall EXCEPT
          !.done = TRUE,
          !.result = pollLiveScores(scoresCall.previous, scoresCall.cached,
                                    scoresCall.kind, scoresCall.live,
                                    scoresCall.details)]
  /\ UNCHANGED <<parserVars, normalizerVars, guideVars, loaderVars, fetchVars,
                 cacheVars, highlightsVars, alertVars, streamVars>>

InitScores ==
  /\ ParserIdle
  /\ NormalizerIdle
  /\ GuideIdle
  /\ LoaderIdle
  /\ FetchIdle
  /\ CacheIdle
  /\ HighlightsIdle
  /\ AlertsIdle
  /\ StreamsIdle
  /\ \E previousMatches \in TrackedLists :
     \E cached \in IF previousMatches = <<>> THEN CachedLists
                                              ELSE {NothingCached} :
     \E kind \in ResponseKinds :
     \E live \in IF kind = "ok" THEN LiveLists ELSE {<<>>} :
     \E details \in IF kind = "ok"
                       /\ goalEvents(baselineOf(previousMatches, cached),
                                     live) # <<>>
                      THEN [1..2 -> DetailOutcomes]
                      ELSE {<<"none", "none">>} :
       scoresCall = [NoScoresCall EXCEPT
                       !.previous = previousMatches, !.cached = cached,
                       !.kind = kind, !.live = live, !.details = details]

NextScores == polled

SpecScores == InitScores /\ [][NextScores]_vars

(***************************************************************************)
(* The goal alerts of VideoPlayer (part_003): the polling effect of lines  *)
(* 177-221, the queue processor of lines 223-247, the test notification    *)
(* and the Enter key.  A step is an event together with the render and the *)
(* effects that follow it.  One match is tracked; the API reports its home *)
(* score, and a response carries the score at the time it arrives.         *)
(***************************************************************************)
MaxPolls == 2

MaxEvents == 2

MaxGoals == 1

\* the state that the alerts never touch
beyondAlerts ==
  <<parserVars, normalizerVars, loaderVars, fetchVars, cacheVars,
    highlightsVars, scoresVars, streamVars>>

\* the state of the guide that the alerts leave alone
guideHistory == <<readAt, activeMatchId, localMatches, isSearching, searched>>

\* what getFromCache(CACHE_KEY, true) gives pollLiveScores: the tracked match
CachedHighlights ==
  [kind |-> "entry", items |-> <<Tracked("m1", ArsenalVsChelsea, 0, 0)>>]

\* the guides of the App: the match upcoming on "a", and live on "b" or not
\* on "b"
AlertGuides ==
  { [a |-> <<Program("a", News, 0, 1), Program("a", ArsenalChelsea, 1, MaxTime)>>,
     b |-> tb] :
      tb \in {<<>>, <<Program("b", ArsenalChelsea, 0, MaxTime)>>} }

\* allChannels
AlertChannels == SubSeq(GuideChannels, 1, 3)

\* lines 256-264
TestEvent ==
  [matchId |-> "test", matchTitle |-> ArsenalOnly, score |-> <<2, 1>>,
   scorer |-> "Isak", minute |-> "88'", channelToWatch |-> NoChannel]

\* an event of the queue, with the number it was enqueued under and the
\* list that findLocalMatches returned for it
Notification(n, event, found) == [n |-> n, event |-> event, found |-> found]

\* lines 187-188: a call of poll, with the list handed to pollLiveScores and
\* the values of the render it was created in
Poll(previousMatches, program, epg) ==
  [previous |-> previousMatches, title |-> program.title, epg |-> epg]

\* the channel of the first entry, live or not
enrichedWithFirst(event, found) ==
  IF Len(found) > 0
    THEN [event EXCEPT !.channelToWatch = found[1].channel]
    ELSE event

\* lines 198-206
enriched(event, found) ==
  IF Len(found) > 0 /\ found[1].isLive
    THEN [event EXCEPT !.channelToWatch = found[1].channel]
    ELSE event

\* the head of the queue stays in the queue
peekNext(queue, current, timer) ==
  IF current # NoNotification \/ queue = <<>>
    THEN [queue |-> queue, current |-> current, timer |-> timer]
    ELSE [queue |-> queue, current |-> Head(queue), timer |-> TRUE]

\* the timer is not set
displayUntimed(queue, current, timer) ==
  IF current # NoNotification \/ queue = <<>>
    THEN [queue |-> queue, current |-> current, timer |-> timer]
    ELSE [queue |-> Tail(queue), current |-> Head(queue), timer |-> FALSE]

\* lines 224-247: the queue processor, run after a render
displayNext(queue, current, timer) ==
  IF current # NoNotification \/ queue = <<>>
    THEN [queue |-> queue, current |-> current, timer |-> timer]
    ELSE [queue |-> Tail(queue), current |-> Head(queue), timer |-> TRUE]

\* the render after the queue, the notification or the timer were set
rendered(queue, current, timer) ==
  \E next \in {displayNext(queue, current, timer)} :
    /\ notificationQueue' = next.queue
    /\ currentNotification' = next.current
    /\ notificationTimeout' = next.timer
    /\ lastShown' = IF next.current # current /\ next.current # NoNotification
                      THEN next.current.n
                      ELSE lastShown

Numbers(queue) == {queue[i].n : i \in DOMAIN queue}

\* the polls in flight are left alone
keepPolls(enabled, program, epg) == polls

\* lines 215-216: the effect calls poll when the alerts are enabled
startedPolls(enabled, program, epg) ==
  IF enabled THEN polls (+) SetToBag({Poll(lastKnownMatches, program, epg)})
  ELSE polls

\* lines 178-221: the polling effect, run with the values of the render
pollingEffect(enabled, program, epg) ==
  /\ enabled => BagCardinality(polls) < MaxPolls
  /\ polls' = startedPolls(enabled, program, epg)
  /\ IF enabled
       THEN rendered(notificationQueue, currentNotification,
                     notificationTimeout)
       ELSE rendered(<<>>, NoNotification, FALSE)

\* lines 118-144: updateEPG, run when the channel or the guide change
programOf(c, epg) ==
  IF HasGuide(c, epg) THEN getCurrentProgram(epg[c.tvgId], now) ELSE NoProgram

guideShown(c, epg) ==
  /\ currentProgram' = programOf(c, epg)
  /\ nextProgram' = IF HasGuide(c, epg)
                      THEN getNextProgram(epg[c.tvgId], now)
                      ELSE NoProgram
  /\ progress' = IF programOf(c, epg) # NoProgram
                   THEN Percent(programOf(c, epg), now)
                   ELSE ZeroProgress

\* line 947: the alert button
toggleGoalAlert ==
  /\ isGoalAlertEnabled' = ~isGoalAlertEnabled
  /\ pollingEffect(~isGoalAlertEnabled, currentProgram, epgData)
  /\ lastEnter' = NotPressed
  /\ UNCHANGED <<beyondAlerts, guideVars, lastKnownMatches, liveScore,
                 isListOpen, showTeletext, enqueued, announced, reannounced>>

\* line 219: the interval of the effect
pollOnInterval ==
  /\ isGoalAlertEnabled
  /\ BagCardinality(polls) < MaxPolls
  /\ polls' = startedPolls(TRUE, currentProgram, epgData)
  /\ lastEnter' = NotPressed
  /\ UNCHANGED <<beyondAlerts, guideVars, isGoalAlertEnabled,
                 notificationQueue, currentNotification, notificationTimeout,
                 lastKnownMatches, liveScore, isListOpen, showTeletext,
                 enqueued, lastShown, announced, reannounced>>

\* VideoPlayer.tsx line 1289: the App renders and hands the player a new
\* array of channels, and the effect runs again
appRendered ==
  /\ pollingEffect(isGoalAlertEnabled, currentProgram, epgData)
  /\ lastEnter' = NotPressed
  /\ UNCHANGED <<beyondAlerts, guideVars, isGoalAlertEnabled,
                 lastKnownMatches, liveScore, isListOpen, showTeletext,
                 enqueued, announced, reannounced>>

\* the App has loaded another guide
guideReloaded ==
  \E epg \in AlertGuides \ {epgData} :
    /\ epgData' = epg
    /\ guideShown(channel, epg)
    /\ pollingEffect(isGoalAlertEnabled, programOf(channel, epg), epg)
    /\ lastEnter' = NotPressed
    /\ UNCHANGED <<beyondAlerts, guideHistory, channel, now,
                   isGoalAlertEnabled, lastKnownMatches, liveScore,
                   isListOpen, showTeletext, enqueued, announced,
                   reannounced>>

\* the tracked team scores
goalScored ==
  /\ liveScore < MaxGoals
  /\ liveScore' = liveScore + 1
  /\ lastEnter' = NotPressed
  /\ UNCHANGED <<beyondAlerts, guideVars, isGoalAlertEnabled,
                 notificationQueue, currentNotification, notificationTimeout,
                 lastKnownMatches, polls, isListOpen, showTeletext, enqueued,
                 lastShown, announced, reannounced>>

\* lines 193-195: the events of the program being watched are left out
Spoiler(p, event) == isSameMatch(p.title, event.matchTitle)

Scored(events) == {events[k].score : k \in DOMAIN events}

\* lines 188-212: pollLiveScores has settled for a poll in flight
pollSettled ==
  \E p \in BagToSet(polls) : \E kind \in ResponseKinds :
  \E live \in IF kind = "ok"
                 THEN {<<>>, <<Live("m1", "IN_PLAY", liveScore, 0)>>}
                 ELSE {<<>>} :
  \E d \in {"none"} :
  \E returned_ \in {pollLiveScores(p.previous, CachedHighlights, kind, live,
                                    <<d, d>>)} :
  \E events \in {SelectSeq(returned_.events,
                            LAMBDA e : ~Spoiler(p, e))} :
  \E lists \in {[k \in DOMAIN events |->
                    findLocalMatches(events[k].matchTitle, AlertChannels,
                                     p.epg, now)]} :
    /\ enqueued + Len(events) <= MaxEvents
    /\ polls' = polls (-) SetToBag({p})
    /\ lastKnownMatches' = returned_.updatedMatches
    /\ rendered(notificationQueue \o
                  [k \in DOMAIN events |->
                     Notification(enqueued + k,
                                  enriched(events[k], lists[k]), lists[k])],
                currentNotification, notificationTimeout)
    /\ enqueued' = enqueued + Len(events)
    /\ announced' = announced \cup Scored(events)
    /\ reannounced' = reannounced \cup (announced \cap Scored(events))
    /\ lastEnter' = NotPressed
    /\ UNCHANGED <<beyondAlerts, guideVars, isGoalAlertEnabled, liveScore,
                   isListOpen, showTeletext>>

\* lines 256-268, behind the button of line 963, shown with the alerts enabled
triggerTestNotification ==
  /\ isGoalAlertEnabled
  /\ enqueued < MaxEvents
  /\ rendered(Append(notificationQueue,
                     Notification(enqueued + 1, TestEvent, <<>>)),
              currentNotification, notificationTimeout)
  /\ enqueued' = enqueued + 1
  /\ lastEnter' = NotPressed
  /\ UNCHANGED <<beyondAlerts, guideVars, isGoalAlertEnabled,
                 lastKnownMatches, polls, liveScore, isListOpen, showTeletext,
                 announced, reannounced>>

\* lines 243-245: the timer of the notification fires
notificationExpired ==
  /\ notificationTimeout
  /\ rendered(notificationQueue, NoNotification, FALSE)
  /\ lastEnter' = NotPressed
  /\ UNCHANGED <<beyondAlerts, guideVars, isGoalAlertEnabled,
                 lastKnownMatches, polls, liveScore, isListOpen, showTeletext,
                 enqueued, announced, reannounced>>

\* lines 486-491
toggleTeletext ==
  /\ showTeletext' = ~showTeletext
  /\ lastEnter' = NotPressed
  /\ UNCHANGED <<beyondAlerts, guideVars, isGoalAlertEnabled,
                 notificationQueue, currentNotification, notificationTimeout,
                 lastKnownMatches, polls, liveScore, isListOpen, enqueued,
                 lastShown, announced, reannounced>>

\* onChannelSelect(c): the App hands the player the channel, the player
\* closes the list (lines 97-116), shows the program of the channel and runs
\* the polling effect again when the program is another one
channelSelected(c) ==
  /\ channel' = c
  /\ isListOpen' = IF c.id # channel.id THEN FALSE ELSE isListOpen
  /\ guideShown(c, epgData)
  /\ IF programOf(c, epgData) # currentProgram
       THEN pollingEffect(isGoalAlertEnabled, programOf(c, epgData), epgData)
       ELSE UNCHANGED <<notificationQueue, currentNotification,
                        notificationTimeout, polls, lastShown>>
  /\ UNCHANGED <<beyondAlerts, guideHistory, epgData, now, isGoalAlertEnabled,
                 lastKnownMatches, liveScore, showTeletext, enqueued,
                 announced, reannounced>>

\* the list is opened whatever is displayed
noShortcut(notif) == FALSE

\* line 504: notif && notif.channelToWatch
hasShortcut(notif) ==
  notif # NoNotification /\ notif.event.channelToWatch # NoChannel

\* the Enter key as the latest event
Pressed(selected, listOpen) ==
  [pressed |-> TRUE, teletext |-> showTeletext, listWasOpen |-> isListOpen,
   carried |-> currentNotification.event.channelToWatch,
   selected |-> selected, listOpen |-> listOpen]

\* lines 484-511 and 638-669: the Enter key; with the list open the cursor
\* is on any channel of the list
handleEnter ==
  /\ ~showTeletext
  /\ IF ~isListOpen /\ hasShortcut(currentNotification)
       THEN /\ channelSelected(currentNotification.event.channelToWatch)
            /\ lastEnter' =
                 Pressed(currentNotification.event.channelToWatch, isListOpen')
     ELSE IF ~isListOpen
       THEN /\ isListOpen' = TRUE
            /\ lastEnter' = Pressed(NoChannel, TRUE)
            /\ UNCHANGED <<beyondAlerts, guideVars, isGoalAlertEnabled,
                           notificationQueue, currentNotification,
                           notificationTimeout, lastKnownMatches, polls,
                           liveScore, showTeletext, enqueued, lastShown,
                           announced, reannounced>>
     ELSE \E k \in DOMAIN AlertChannels :
            IF AlertChannels[k].id = channel.id
              THEN /\ isListOpen' = FALSE
                   /\ lastEnter' = Pressed(NoChannel, FALSE)
                   /\ UNCHANGED <<beyondAlerts, guideVars, isGoalAlertEnabled,
                                  notificationQueue, currentNotification,
                                  notificationTimeout, lastKnownMatches,
                                  polls, liveScore, showTeletext, enqueued,
                                  lastShown, announced, reannounced>>
              ELSE /\ channelSelected(AlertChannels[k])
                   /\ lastEnter' = Pressed(AlertChannels[k], FALSE)

\* lines 493-497: with the teletext shown the key is left to the teletext
handleEnterOverTeletext ==
  /\ showTeletext
  /\ lastEnter' = Pressed(NoChannel, isListOpen)
  /\ UNCHANGED <<beyondAlerts, guideVars, isGoalAlertEnabled,
                 notificationQueue, currentNotification, notificationTimeout,
                 lastKnownMatches, polls, liveScore, isListOpen, showTeletext,
                 enqueued, lastShown, announced, reannounced>>

InitAlerts ==
  /\ ParserIdle
  /\ NormalizerIdle
  /\ LoaderIdle
  /\ FetchIdle
  /\ CacheIdle
  /\ LaterIdle
  /\ SidebarIdle
  /\ epgData \in AlertGuides
  /\ channel = GuideChannels[1]
  /\ now = 0
  /\ currentProgram = programOf(channel, epgData)
  /\ nextProgram = NoProgram
  /\ progress = ZeroProgress
  /\ readAt = <<>>

\* the alerts of a player that stays on its channel
NextAlerts ==
  \/ toggleGoalAlert
  \/ pollOnInterval
  \/ appRendered
  \/ guideReloaded
  \/ goalScored
  \/ pollSettled
  \/ triggerTestNotification
  \/ notificationExpired

SpecAlerts == InitAlerts /\ [][NextAlerts]_vars

\* the alerts and the Enter key, over a guide that stays
NextShortcut ==
  \/ toggleGoalAlert
  \/ goalScored
  \/ pollSettled
  \/ notificationExpired
  \/ toggleTeletext
  \/ handleEnter
  \/ handleEnterOverTeletext

SpecShortcut == InitAlerts /\ [][NextShortcut]_vars

\* a pending timer of setTimeout fires
SpecAlertsLive ==
  InitAlerts /\ [][NextAlerts]_vars /\ WF_vars(notificationExpired)


(***************************************************************************)
(* Vocabulary of the properties                                            *)
(***************************************************************************)
\* the lower-cased base name and the quality label of a raw name
LowerBaseName == [n \in KnownNames |-> toLowerCase(parseChannelInfo(n).baseName)]

QualityLabel == [n \in KnownNames |-> parseChannelInfo(n).quality]

Done == pc = "done"

\* a metadata line was read since the last URL-like line before line i
RECURSIVE PendingAt(_, _)
PendingAt(doc, i) ==
  IF i <= 1 THEN FALSE
  ELSE LET prev == lineAt(doc, i - 1)
       IN IF startsWith(prev, "#EXTINF:") THEN TRUE
          ELSE IF IsUrlLine(prev) THEN FALSE
          ELSE PendingAt(doc, i - 1)

AtUrlLine == AtLine /\ IsUrlLine(line)

\* the ids of the Channels of a result, group after group
RECURSIVE ChannelIds(_)
ChannelIds(gs) ==
  IF gs = <<>> THEN <<>> ELSE Head(gs).channels \o ChannelIds(Tail(gs))

Occurrences(seq, x) == Cardinality({k \in DOMAIN seq : seq[k] = x})

SameBaseName(i, j) == LowerBaseName[log[i].rawName] = LowerBaseName[log[j].rawName]

(***************************************************************************)
(* C1: with the always-group hint, a playlist whose completed entries all  *)
(* share one lower-cased base name returns exactly one Channel, once, in   *)
(* exactly one group, with one variant per entry: the entries' quality     *)
(* labels and URLs in encounter order.                                     *)
(***************************************************************************)
C1_OneChannelPerBaseName ==
  (Done /\ category = FOTBOLL /\ log # <<>>
     /\ \A i \in DOMAIN log : SameBaseName(i, 1))
    => /\ Len(result.groups) = 1
       /\ Len(result.groups[1].channels) = 1
       /\ heap[result.groups[1].channels[1]].streams =
            [i \in DOMAIN log |-> [quality |-> QualityLabel[log[i].rawName],
                                   url |-> log[i].url]]

C1_Witness ==
  /\ Done
  /\ category = FOTBOLL
  /\ [i \in DOMAIN log |-> log[i].rawName] = <<SkySportsFHD, SkySportsHD>>
  /\ Len(result.groups) = 1
  /\ LET ch == heap[result.groups[1].channels[1]]
     IN [i \in DOMAIN ch.streams |-> ch.streams[i].quality] =
          <<<<"F", "H", "D">>, <<"H", "D">>>>

(***************************************************************************)
(* C2: with the position-gated hint an entry is merged into an earlier     *)
(* Channel if and only if its running index lies in 115..248 and an        *)
(* earlier entry whose index lay in 115..248 had the same lower-cased base *)
(* name; the merged entry's variant goes to the Channel of the first such  *)
(* entry, every other entry gets a Channel of its own.                     *)
(***************************************************************************)
InGate(i) == log[i].index \in WindowLo..WindowHi

EarlierInGate(i) == {j \in 1..(i - 1) : InGate(j) /\ SameBaseName(i, j)}

Min(S) == CHOOSE x \in S : \A y \in S : x <= y

C2_WindowMerge ==
  (Done /\ category = KANALER) =>
    /\ \A i \in DOMAIN log :
         /\ log[i].merged <=> (InGate(i) /\ EarlierInGate(i) # {})
         /\ log[i].merged =>
              /\ log[i].channel = log[Min(EarlierInGate(i))].channel
              /\ \E k \in DOMAIN heap[log[i].channel].streams :
                   /\ k > 1
                   /\ heap[log[i].channel].streams[k].url = log[i].url
         /\ ~log[i].merged => heap[log[i].channel].url = log[i].url
    /\ Len(ChannelIds(result.groups)) =
         Cardinality({i \in DOMAIN log : ~log[i].merged})

\* the duplicate at positions 120 and 200 is one Channel with two variants
C2_Witness ==
  /\ Done
  /\ category = KANALER
  /\ \E i, j \in DOMAIN log :
       /\ log[i].index = 120
       /\ log[j].index = 200
       /\ SameBaseName(i, j)
       /\ log[j].merged
       /\ log[j].channel = log[i].channel
       /\ Len(heap[log[i].channel].streams) = 2

(***************************************************************************)
(* C3: without a hint, and with the position-gated hint for an entry whose *)
(* index is outside 115..248, the entry is never merged and never a merge  *)
(* target: it has a Channel of its own, listed once, named by the raw      *)
(* name, with the single variant ("Default", the entry's URL).             *)
(***************************************************************************)
Ineligible(i) ==
  \/ category \notin {KANALER, FOTBOLL}
  \/ category = KANALER /\ ~InGate(i)

C3_IneligibleUntouched ==
  Done =>
    \A i \in DOMAIN log :
      Ineligible(i) =>
        /\ ~log[i].merged
        /\ \A j \in DOMAIN log : j # i => log[j].channel # log[i].channel
        /\ Occurrences(ChannelIds(result.groups), log[i].channel) = 1
        /\ heap[log[i].channel].name = log[i].rawName
        /\ heap[log[i].channel].streams =
             <<[quality |-> DefaultQuality, url |-> log[i].url]>>

\* position 50 is outside the window, position 200 inside: same base name,
\* two Channels
C3_Witness ==
  /\ Done
  /\ category = KANALER
  /\ \E i, j \in DOMAIN log :
       /\ log[i].index = 50
       /\ log[j].index = 200
       /\ SameBaseName(i, j)
       /\ log[i].channel # log[j].channel
       /\ heap[log[i].channel].name = SkySportsFHD

(***************************************************************************)
(* C4: deduplication is global across groups.  A URL line completing an    *)
(* eligible entry whose lower-cased base name an earlier eligible entry    *)
(* claimed creates no Channel and changes no group; it appends its variant *)
(* to the Channel of the first claimant and changes nothing else of it.    *)
(***************************************************************************)
EligibleIndex(index) ==
  \/ category = FOTBOLL
  \/ category = KANALER /\ index \in WindowLo..WindowHi

Claimants ==
  {j \in DOMAIN log :
     /\ EligibleIndex(log[j].index)
     /\ LowerBaseName[log[j].rawName] = LowerBaseName[currentChannel.name]}

CompletesClaimedEntry ==
  /\ AtUrlLine
  /\ PendingAt(content, lineNo)
  /\ EligibleIndex(Len(log) + 1)
  /\ Claimants # {}

C4_GlobalDedup ==
  [][CompletesClaimedEntry =>
       LET first == log[Min(Claimants)].channel
       IN /\ groups' = groups
          /\ heap' = [heap EXCEPT ![first].streams =
                        Append(@, [quality |-> QualityLabel[currentChannel.name],
                                   url |-> trimmedLine(line)])]]_vars

\* an entry merged into a Channel that sits in another group than its own
C4_Witness ==
  \E i \in DOMAIN log :
    /\ log[i].merged
    /\ log[i].groupName # heap[log[i].channel].group
    /\ ~HasGroup(groups, log[i].groupName)

(***************************************************************************)
(* C5: the running counter starts at 0, grows by exactly one with every    *)
(* completed entry (a URL-like line with a metadata line pending), merged  *)
(* or not and whatever its group, changes at no other step, and the k-th   *)
(* completed entry is tested against the window with index k.              *)
(***************************************************************************)
C5_RunningCounter ==
  /\ globalChannelIndex = 0
  /\ [][globalChannelIndex' =
          IF AtUrlLine /\ PendingAt(content, lineNo)
            THEN globalChannelIndex + 1
            ELSE globalChannelIndex]_vars
  /\ [](/\ Len(log) = globalChannelIndex
        /\ \A k \in DOMAIN log : log[k].index = k)

\* the counter has counted a merged entry and entries of two groups
C5_Witness ==
  /\ globalChannelIndex = 3
  /\ \E i \in DOMAIN log : log[i].merged
  /\ \E i, j \in DOMAIN log : log[i].groupName # log[j].groupName

(***************************************************************************)
(* C6: the groups are returned in ascending order of title (by code unit)  *)
(* whatever the order in which they were met, and in every group the       *)
(* Channels stand in the order in which their entries were met.            *)
(***************************************************************************)
Creator(id) == CHOOSE i \in DOMAIN log : ~log[i].merged /\ log[i].channel = id

C6_SortedGroups ==
  Done =>
    /\ \A a, b \in DOMAIN result.groups :
         a < b => CodeUnitLess(result.groups[a].title, result.groups[b].title)
    /\ {result.groups[a] : a \in DOMAIN result.groups} =
         {groups[a] : a \in DOMAIN groups}
    /\ \A a \in DOMAIN result.groups :
         LET ids == result.groups[a].channels
         IN \A k \in 1..(Len(ids) - 1) : Creator(ids[k]) < Creator(ids[k + 1])

C6_Witness ==
  /\ Done
  /\ [a \in DOMAIN groups |-> groups[a].title] = <<<<"B">>, <<"A">>, <<"C">>>>
  /\ [a \in DOMAIN result.groups |-> result.groups[a].title] =
       <<<<"A">>, <<"B">>, <<"C">>>>

(***************************************************************************)
(* C7: a document without any metadata line returns an empty group list,   *)
(* whatever the hint, and the call always runs on to its return; its EPG   *)
(* URL is null unless a #EXTM3U line among the first five lines carries an *)
(* EPG attribute.                                                          *)
(***************************************************************************)
NoMetadata(doc) ==
  \A i \in 1..linesLength(doc) : ~startsWith(lineAt(doc, i), "#EXTINF:")

HasEpgAttribute(doc) ==
  \E i \in 1..linesLength(doc) :
    /\ i <= 5
    /\ startsWith(lineAt(doc, i), "#EXTM3U")
    /\ \/ lineAt(doc, i).attrs.urlTvg # Null
       \/ lineAt(doc, i).attrs.xTvgUrl # Null

\* the claim as stated: a null EPG URL for every document without metadata
C7_NoMetadataNullEpg ==
  (Done /\ NoMetadata(content)) =>
    /\ result.groups = <<>>
    /\ result.epgUrl = Null

C7_NoMetadataEmptyGroups ==
  NoMetadata(content) =>
    /\ ~Done => ENABLED Next
    /\ Done =>
         /\ result.groups = <<>>
         /\ heap = <<>>
         /\ ~HasEpgAttribute(content) => result.epgUrl = Null

\* "not an m3u file" has been parsed
C7_Witness ==
  /\ Done
  /\ NoMetadata(content)
  /\ \E i \in 1..linesLength(content) : IsUrlLine(lineAt(content, i))
  /\ result = [groups |-> <<>>, epgUrl |-> Null]

(***************************************************************************)
(* C8: a URL-like line completes an entry only when a metadata line is     *)
(* pending, and the completion clears the pending descriptor; a URL-like   *)
(* line with nothing pending creates no Channel and leaves the counter     *)
(* alone, so that no call completes more entries than it has metadata      *)
(* lines.                                                                  *)
(***************************************************************************)
ExtinfCount(doc) ==
  Cardinality({i \in 1..linesLength(doc) : startsWith(lineAt(doc, i), "#EXTINF:")})

C8_OneEntryPerMetadataLine ==
  /\ [][AtUrlLine =>
          IF PendingAt(content, lineNo)
            THEN /\ globalChannelIndex' = globalChannelIndex + 1
                 /\ Len(log') = Len(log) + 1
                 /\ currentChannel' = EmptyChannel
            ELSE UNCHANGED <<heap, groups, globalChannelMap,
                             globalChannelIndex, log, currentChannel>>]_vars
  /\ [](Done => Len(log) <= ExtinfCount(content))

\* a second URL-like line after a completed entry has been passed over
C8_Witness ==
  /\ linesLength(content) >= 3
  /\ startsWith(lineAt(content, 1), "#EXTINF:")
  /\ IsUrlLine(lineAt(content, 2))
  /\ IsUrlLine(lineAt(content, 3))
  /\ pc = "lines"
  /\ lineNo = 4
  /\ Len(log) = 1
  /\ Len(heap) = 1

(***************************************************************************)
(* C9: every Channel has a non-empty url and a non-empty streams list      *)
(* whose first variant carries that url, the URL of the entry that created *)
(* the Channel; a step only ever appends to a streams list.                *)
(***************************************************************************)
C9_OriginalStreamFirst ==
  /\ [](\A id \in DOMAIN heap :
          /\ heap[id].url # ""
          /\ heap[id].streams # NoStreams
          /\ heap[id].streams # <<>>
          /\ heap[id].streams[1].url = heap[id].url)
  /\ [](Done => \A i \in DOMAIN log :
                  ~log[i].merged => heap[log[i].channel].url = log[i].url)
  /\ [][\A id \in DOMAIN heap :
          /\ heap'[id].url = heap[id].url
          /\ Len(heap'[id].streams) >= Len(heap[id].streams)
          /\ SubSeq(heap'[id].streams, 1, Len(heap[id].streams)) =
               heap[id].streams]_vars

\* a returned Channel that took two merges
C9_Witness ==
  /\ Done
  /\ \E a \in DOMAIN result.groups :
       \E k \in DOMAIN result.groups[a].channels :
         LET ch == heap[result.groups[a].channels[k]]
         IN /\ Len(ch.streams) = 3
            /\ ch.streams[1].url = ch.url
            /\ ch.streams[2].url # ch.url

(***************************************************************************)
(* C10: the dedup map belongs to one call.  No entry is merged into a      *)
(* Channel that another call created, and two calls on the same document   *)
(* with the same hint return the same groups, names and stream lists       *)
(* (ids aside), whatever calls ran in between.                             *)
(***************************************************************************)
ChannelView(id) == [heap[id] EXCEPT !.id = 0]

ResultView(res) ==
  [groups |-> [a \in DOMAIN res.groups |->
                 [title |-> res.groups[a].title,
                  channels |-> [k \in DOMAIN res.groups[a].channels |->
                                  ChannelView(res.groups[a].channels[k])]]],
   epgUrl |-> res.epgUrl]

C10_CallsIndependent ==
  /\ \A i \in DOMAIN log :
       log[i].merged =>
         \E j \in 1..(i - 1) : ~log[j].merged /\ log[j].channel = log[i].channel
  /\ \A a, b \in DOMAIN returned :
       (/\ returned[a].content = returned[b].content
        /\ returned[a].category = returned[b].category)
         => ResultView(returned[a].result) = ResultView(returned[b].result)

\* the same two-entry document parsed twice with the always-group hint
C10_Witness ==
  /\ Len(returned) = 2
  /\ returned[1].content = returned[2].content
  /\ returned[1].category = FOTBOLL
  /\ returned[2].category = FOTBOLL
  /\ Len(returned[2].result.groups) = 1
  /\ Len(heap[returned[2].result.groups[1].channels[1]].streams) = 2
  /\ returned[1].result.groups[1].channels[1] #
       returned[2].result.groups[1].channels[1]

(***************************************************************************)
(* C11: normalization is idempotent on the base name: normalizing the      *)
(* base name returned for a raw name returns that same base name again.    *)
(***************************************************************************)
C11_BaseNameIdempotent ==
  reparsed # NotParsed => reparsed.baseName = parsed.baseName

\* the positions i..j of s hold a whole word: a maximal run of word characters
IsWholeWord(s, i, j) ==
  /\ i <= j
  /\ \A k \in i..j : IsWordChar(s[k])
  /\ i = 1 \/ ~IsWordChar(s[i - 1])
  /\ j = Len(s) \/ ~IsWordChar(s[j + 1])

\* the whole words of s that are on the strip list, as <<first, last>> positions
StripListWords(s) ==
  {w \in (DOMAIN s) \X (DOMAIN s) :
     /\ IsWholeWord(s, w[1], w[2])
     /\ Join(toLowerCase(SubSeq(s, w[1], w[2]))) \in StripTokens}

(***************************************************************************)
(* C12: the quality is the upper-cased rightmost word of the               *)
(* Unicode-normalized name that is on the strip list, whatever listed      *)
(* words precede it, and "SD" when no word is on the list.                 *)
(***************************************************************************)
C12_QualityIsLastToken ==
  parsed # NotParsed =>
    LET name == normalizeNFKC(nameArg)
        words == StripListWords(name)
    IN IF words = {}
         THEN parsed.quality = <<"S", "D">>
         ELSE \E w \in words :
                /\ \A v \in words : v[1] <= w[1]
                /\ parsed.quality = toUpperCase(SubSeq(name, w[1], w[2]))

\* "sD H<sup-D>": two listed words, the last one spelled with a superscript
C12_Witness ==
  /\ nameArg = <<"s", "D", " ", "H", "<sup-D>">>
  /\ parsed # NotParsed
  /\ parsed.quality = <<"H", "D">>

(***************************************************************************)
(* C13: the base name is never empty: when every word of the normalized    *)
(* name is on the strip list, so that removing the listed words, the       *)
(* brackets and pipes and the leading separators leaves nothing, the base  *)
(* name is the trimmed raw name.                                           *)
(***************************************************************************)
NothingLeft(s) ==
  \A k \in DOMAIN s :
    IsWordChar(s[k]) =>
      \E w \in StripListWords(s) : w[1] <= k /\ k <= w[2]

C13_BaseNameNeverEmpty ==
  parsed # NotParsed =>
    /\ parsed.baseName # <<>>
    /\ NothingLeft(normalizeNFKC(nameArg)) => parsed.baseName = trim(nameArg)

\* "|HD|"-like names: only listed words and separators
C13_Witness ==
  /\ parsed # NotParsed
  /\ NothingLeft(normalizeNFKC(nameArg))
  /\ Len(nameArg) > 2
  /\ StripListWords(normalizeNFKC(nameArg)) # {}
  /\ parsed.baseName = nameArg

(***************************************************************************)
(* C14: the returned epgUrl comes only from a #EXTM3U line among the first *)
(* five lines, from its url-tvg attribute or otherwise its x-tvg-url       *)
(* attribute; it is the value of the first such line that yields one, and  *)
(* it is null when no #EXTM3U line among the first five lines carries an   *)
(* EPG attribute, whatever the later lines carry.                          *)
(***************************************************************************)
HeadersScanned(doc) ==
  {i \in 1..linesLength(doc) : i <= 5 /\ startsWith(lineAt(doc, i), "#EXTM3U")}

EpgValueAt(doc, i) ==
  IF TruthyAtom(lineAt(doc, i).attrs.urlTvg)
    THEN lineAt(doc, i).attrs.urlTvg
    ELSE lineAt(doc, i).attrs.xTvgUrl

YieldingHeaders(doc) ==
  {i \in HeadersScanned(doc) : TruthyAtom(EpgValueAt(doc, i))}

C14_EpgUrlFromFirstFiveLines ==
  Done =>
    /\ YieldingHeaders(content) # {} =>
         result.epgUrl = EpgValueAt(content, Min(YieldingHeaders(content)))
    /\ ~HasEpgAttribute(content) => result.epgUrl = Null
    /\ result.epgUrl # Null =>
         \E i \in HeadersScanned(content) :
           result.epgUrl = EpgValueAt(content, i)

\* the fifth line has an empty url-tvg and yields its x-tvg-url; the sixth
\* line carries another URL
C14_Witness ==
  /\ Done
  /\ YieldingHeaders(content) = {5}
  /\ lineAt(content, 5).attrs.urlTvg = ""
  /\ startsWith(lineAt(content, 6), "#EXTM3U")
  /\ lineAt(content, 6).attrs.urlTvg = "http://a"
  /\ result.epgUrl = "http://x"

(***************************************************************************)
(* C15: a metadata line with missing or empty attributes is read without   *)
(* an error and never gives an empty name or group: the raw name is the    *)
(* text after the last comma, else the tvg-name attribute, else "Unknown   *)
(* Channel", and a missing or empty group-title gives "Uncategorized".     *)
(***************************************************************************)
JustRead(l) ==
  /\ pc = "lines"
  /\ lineNo > 1
  /\ l = lineAt(content, lineNo - 1)
  /\ startsWith(l, "#EXTINF:")

TextAfterLastComma(l) ==
  IF l.afterComma = NoStr THEN <<>> ELSE trim(l.afterComma)

Missing(v) == v = NoStr \/ v = <<>>

C15_MetadataDefaults ==
  /\ (AtLine /\ startsWith(line, "#EXTINF:")) => ENABLED ReadExtinf
  /\ \A i \in DOMAIN log : log[i].rawName # <<>> /\ log[i].groupName # <<>>
  /\ \A l \in {lineAt(content, IF lineNo > 1 THEN lineNo - 1 ELSE 1)} :
       JustRead(l) =>
         /\ currentChannel.name # <<>>
         /\ currentChannel.group # <<>>
         /\ currentChannel.name =
              IF ~Missing(TextAfterLastComma(l)) THEN TextAfterLastComma(l)
              ELSE IF ~Missing(l.attrs.tvgName) THEN l.attrs.tvgName
              ELSE <<"U", "n", "k", "n", "o", "w", "n", " ",
                     "C", "h", "a", "n", "n", "e", "l">>
         /\ currentChannel.group =
              IF Missing(l.attrs.group)
                THEN <<"U", "n", "c", "a", "t", "e", "g", "o", "r", "i", "z", "e", "d">>
                ELSE l.attrs.group

\* nothing after the comma, no tvg-name, an empty group-title
C15_Witness ==
  /\ JustRead(lineAt(content, IF lineNo > 1 THEN lineNo - 1 ELSE 1))
  /\ lineAt(content, 1).afterComma = <<" ">>
  /\ lineAt(content, 1).attrs.tvgName = NoStr
  /\ lineAt(content, 1).attrs.group = <<>>
  /\ lineNo = 2
  /\ currentChannel.name = UnknownChannel
  /\ currentChannel.group = Uncategorized

(***************************************************************************)
(* The state right after a run of updateEPG on a channel the guide knows   *)
(***************************************************************************)
Updated == readAt # <<>> /\ HasGuide(channel, epgData)

programsOfChannel == Range(epgData[channel.tvgId])

(***************************************************************************)
(* C16: a program is current exactly on the half-open interval             *)
(* [start, end): current when now equals its start, not current when now   *)
(* equals its end; when no interval contains now the lookup returns null,  *)
(* and it never fails.                                                     *)
(***************************************************************************)
C16_HalfOpenInterval ==
  /\ ENABLED updateEPG
  /\ Updated =>
       /\ currentProgram # NoProgram =>
            /\ currentProgram \in programsOfChannel
            /\ currentProgram.start <= readAt[1]
            /\ readAt[1] < currentProgram.end
       /\ currentProgram = NoProgram =>
            \A p \in programsOfChannel :
              readAt[1] < p.start \/ p.end <= readAt[1]

\* one program has just ended and the next one starts at this instant
C16_Witness ==
  /\ Updated
  /\ \E p \in programsOfChannel : p.end = readAt[1] /\ p # currentProgram
  /\ currentProgram # NoProgram
  /\ currentProgram.start = readAt[1]

(***************************************************************************)
(* C17: the program returned as current and the program returned as next   *)
(* are never the same entry; a program starting exactly at now is current  *)
(* and is not returned as next.                                            *)
(***************************************************************************)
C17_CurrentIsNotNext ==
  Updated =>
    /\ currentProgram # NoProgram => currentProgram # nextProgram
    /\ readAt[1] = readAt[2] =>
         \A p \in programsOfChannel :
           p.start = readAt[1] =>
             /\ currentProgram # NoProgram
             /\ currentProgram.start = readAt[1]
             /\ nextProgram # p

\* a program starts at this instant and another one follows
C17_Witness ==
  /\ Updated
  /\ readAt[1] = readAt[2]
  /\ currentProgram # NoProgram
  /\ currentProgram.start = readAt[1]
  /\ nextProgram # NoProgram

(***************************************************************************)
(* C18: when several programs of the channel contain now, the current      *)
(* program is the one with the latest start.                               *)
(***************************************************************************)
Containing(t) == {p \in programsOfChannel : p.start <= t /\ t < p.end}

C18_LatestStartWins ==
  (Updated /\ Cardinality(Containing(readAt[1])) > 1) =>
    /\ currentProgram \in Containing(readAt[1])
    /\ \A p \in Containing(readAt[1]) : p.start <= currentProgram.start

\* two overlapping entries, the later one inside the earlier one
C18_Witness ==
  /\ Updated
  /\ \E p \in Containing(readAt[1]) : p.start < currentProgram.start
  /\ currentProgram = epgData[channel.tvgId][2]

(***************************************************************************)
(* C19: the next program is the entry with the smallest start among the    *)
(* entries starting after now, and null when no entry starts after now.    *)
(***************************************************************************)
StartingAfter(t) == {p \in programsOfChannel : p.start > t}

C19_NextIsEarliestLater ==
  Updated =>
    IF StartingAfter(readAt[2]) = {}
      THEN nextProgram = NoProgram
      ELSE /\ nextProgram \in StartingAfter(readAt[2])
           /\ \A p \in StartingAfter(readAt[2]) : nextProgram.start <= p.start

\* two entries start later, at different instants
C19_Witness ==
  /\ Updated
  /\ nextProgram # NoProgram
  /\ \E p \in StartingAfter(readAt[2]) : p.start > nextProgram.start

(***************************************************************************)
(* The state right after a search of the guide by handleMatchClick         *)
(***************************************************************************)
Searched == searched # NotSearched

ReturnedChannels == {localMatches[i].channel : i \in DOMAIN localMatches}

TeamFragments == splitTeams(toLowerCase(searched.title))

\* the title of the program contains every team fragment, trimmed
NamesEveryTeam(prog) ==
  /\ prog # NoProgram
  /\ \A i \in DOMAIN TeamFragments :
       includes(toLowerCase(prog.title), trim(TeamFragments[i]))

\* the channel has an EPG linkage key with a non-empty program sequence and
\* its current or its next program names every team
Qualifies(c) ==
  /\ TruthyAtom(c.tvgId)
  /\ c.tvgId \in DOMAIN epgData
  /\ epgData[c.tvgId] # <<>>
  /\ \/ NamesEveryTeam(getCurrentProgram(epgData[c.tvgId], searched.at))
     \/ NamesEveryTeam(getNextProgram(epgData[c.tvgId], searched.at))

\* C20 as stated: a channel is returned if and only if it qualifies,
\* whatever the match title
C20_ReturnedIffEveryFragment ==
  Searched =>
    \A c \in Range(GuideChannels) : c \in ReturnedChannels <=> Qualifies(c)

(***************************************************************************)
(* C20: for a match title that splits into at least two team fragments,    *)
(* findLocalMatches returns a channel if and only if the channel has an    *)
(* EPG linkage key with a non-empty program sequence and the title of its  *)
(* current or of its next program contains every team fragment (letter     *)
(* case aside, fragments trimmed), so that a program naming one team only  *)
(* never qualifies; for a title with fewer than two fragments it returns   *)
(* no channel.  isSameMatch of the player applies the same rule.           *)
(***************************************************************************)
C20_ReturnedIffBothTeams ==
  Searched =>
    /\ \A c \in Range(GuideChannels) :
         c \in ReturnedChannels <=> (Len(TeamFragments) >= 2 /\ Qualifies(c))
    /\ \A m \in Range(localMatches) :
         m.isLive <=>
           NamesEveryTeam(getCurrentProgram(epgData[m.channel.tvgId], searched.at))
    /\ \A title \in GuideTitles :
         isSameMatch(title, searched.title) <=>
           /\ Len(TeamFragments) >= 2
           /\ NamesEveryTeam(Program("a", title, 0, 1))

\* "Arsenal vs Chelsea": the channel showing "Arsenal Post-Match Show" is not
\* returned, the channel showing "Premier League: Arsenal v Chelsea" is
C20_Witness ==
  /\ Searched
  /\ searched.title = ArsenalVsChelsea
  /\ epgData.a # <<>>
  /\ getCurrentProgram(epgData.a, searched.at).title = PostMatchShow
  /\ getNextProgram(epgData.a, searched.at) = NoProgram
  /\ ReturnedChannels = {GuideChannels[2]}
  /\ localMatches[1].programTitle = ArsenalChelsea

(***************************************************************************)
(* C21: when the match title does not split on the "vs"/"v" separator into *)
(* at least two team fragments, the match is not correlatable: the search  *)
(* of the guide returns an empty list, isSameMatch is false for every      *)
(* program title, and the click is handled like any other (no error).      *)
(***************************************************************************)
C21_NoSeparatorNoMatch ==
  (Searched /\ Len(TeamFragments) < 2) =>
    /\ localMatches = <<>>
    /\ \A title \in GuideTitles : ~isSameMatch(title, searched.title)
    /\ activeMatchId \in {h.id : h \in Highlights}
    /\ ~isSearching

\* "Arsenal" alone is searched while channel "b" shows "Premier League:
\* Arsenal v Chelsea", whose title contains the only fragment
C21_Witness ==
  /\ Searched
  /\ searched.title = ArsenalOnly
  /\ Len(TeamFragments) = 1
  /\ epgData.b # <<>>
  /\ includes(toLowerCase(epgData.b[1].title), trim(TeamFragments[1]))
  /\ Airing(epgData.b[1], searched.at)
  /\ localMatches = <<>>

(***************************************************************************)
(* C22: in every list returned by findLocalMatches no entry with isLive    *)
(* false precedes an entry with isLive true, so that the first entry is    *)
(* live whenever any entry is.                                             *)
(***************************************************************************)
C22_LiveFirst ==
  Searched =>
    /\ \A i, j \in DOMAIN localMatches :
         (i < j /\ localMatches[j].isLive) => localMatches[i].isLive
    /\ (\E i \in DOMAIN localMatches : localMatches[i].isLive) =>
         localMatches[1].isLive

\* channel "a", first in the playlist, matches with its next program only and
\* channel "b" with its current program: "b" is returned before "a"
C22_Witness ==
  /\ Searched
  /\ Len(localMatches) = 2
  /\ localMatches[1].channel = GuideChannels[2]
  /\ localMatches[1].isLive
  /\ localMatches[2].channel = GuideChannels[1]
  /\ ~localMatches[2].isLive

(***************************************************************************)
(* C23: in every entry returned by findLocalMatches, isLive is true        *)
(* exactly when the matched program is the current program of the channel  *)
(* at the time of the query, false when only the next program matched, and *)
(* programTitle and start are those of the matched program.                *)
(***************************************************************************)
currentAtQuery(m) == getCurrentProgram(epgData[m.channel.tvgId], searched.at)

nextAtQuery(m) == getNextProgram(epgData[m.channel.tvgId], searched.at)

C23_EntryDescribesMatchedProgram ==
  Searched =>
    \A i \in DOMAIN localMatches :
      LET m == localMatches[i]
      IN IF NamesEveryTeam(currentAtQuery(m))
           THEN /\ m.isLive
                /\ m.programTitle = currentAtQuery(m).title
                /\ m.start = currentAtQuery(m).start
           ELSE /\ ~m.isLive
                /\ NamesEveryTeam(nextAtQuery(m))
                /\ m.programTitle = nextAtQuery(m).title
                /\ m.start = nextAtQuery(m).start

\* at instant 0 channel "a" shows "News" and then the fixture from instant 1
\* on: its entry is not live and carries the title and the start of the
\* next program, while the entry of channel "b" is live
C23_Witness ==
  /\ Searched
  /\ searched.at = 0
  /\ Len(localMatches) = 2
  /\ localMatches[1].isLive
  /\ localMatches[1].start = 0
  /\ ~localMatches[2].isLive
  /\ currentAtQuery(localMatches[2]).title = News
  /\ localMatches[2].programTitle = ArsenalChelsea
  /\ localMatches[2].start = 1

(***************************************************************************)
(* The state right after the provider and the custom guide were merged     *)
(***************************************************************************)
Merged == merged.done

(***************************************************************************)
(* C24: when the provider and the custom EPG source are merged, every      *)
(* channel key of the custom source maps to exactly the program list of    *)
(* the custom source (no program of the provider's list for that key       *)
(* survives), and every key of the provider source alone keeps the         *)
(* provider's list; the guide has no other key.                            *)
(***************************************************************************)
C24_CustomReplacesProvider ==
  Merged =>
    /\ DOMAIN epgData = DOMAIN merged.provider \cup DOMAIN merged.custom
    /\ \A k \in DOMAIN merged.custom :
         /\ epgData[k] = merged.custom[k]
         /\ k \in DOMAIN merged.provider =>
              Range(epgData[k]) \cap Range(merged.provider[k]) = {}
    /\ \A k \in DOMAIN merged.provider \ DOMAIN merged.custom :
         epgData[k] = merged.provider[k]

\* both sources list channel "a", the custom source with an empty list, and
\* the provider alone lists channel "b"
C24_Witness ==
  /\ Merged
  /\ DOMAIN merged.provider = {"a", "b"}
  /\ DOMAIN merged.custom = {"a"}
  /\ Len(merged.provider.a) = 2
  /\ merged.custom.a = <<>>
  /\ epgData.a = <<>>
  /\ epgData.b = merged.provider.b

(***************************************************************************)
(* The state right after the promise of fetchPlaylist is settled           *)
(***************************************************************************)
Settled == fetchState \in {"resolved", "rejected"}

lastReturned == returned[Len(returned)]

(***************************************************************************)
(* C25: fetchPlaylist never rejects: for an empty URL, a network failure   *)
(* or a non-OK response it resolves to an empty group list with a null EPG *)
(* URL, and otherwise to the result of parseM3U on the text of the         *)
(* response with the category hint of the call.                            *)
(***************************************************************************)
C25_FetchNeverRejects ==
  /\ fetchState # "rejected"
  /\ Settled =>
       IF fetchCall.outcome \in {"no url", "network", "not ok"}
         THEN fetchResult = EmptyPlaylist
         ELSE /\ fetchCall.outcome = "ok"
              /\ returned # <<>>
              /\ lastReturned.content = fetchCall.text
              /\ lastReturned.category = fetchCall.category
              /\ fetchResult = lastReturned.result

\* the second call, with the FOTBOLL hint and an OK response, resolves to
\* the one merged Channel of "Sky Sports FHD" and "Sky Sports HD"
C25_Witness ==
  /\ Settled
  /\ fetches = 2
  /\ fetchCall.outcome = "ok"
  /\ fetchCall.category = FOTBOLL
  /\ Len(returned) = 1
  /\ Len(fetchResult.groups) = 1
  /\ Len(log) = 2
  /\ log[2].merged

(***************************************************************************)
(* The state right after a ChannelItem was rendered with a program         *)
(***************************************************************************)
Rendered == readAt # <<>> /\ currentProgram # NoProgram

\* progress is a number from 0 to 100
WithinBounds(v) == v.den > 0 /\ 0 <= v.num /\ v.num <= 100 * v.den

RECURSIVE VariantUrls(_)
VariantUrls(ids) ==
  IF ids = <<>> THEN <<>>
  ELSE [k \in DOMAIN heap[Head(ids)].streams |-> heap[Head(ids)].streams[k].url]
         \o VariantUrls(Tail(ids))

ReturnedUrls == VariantUrls(ChannelIds(result.groups))

EntryUrls == [i \in DOMAIN log |-> log[i].url]

(***************************************************************************)
(* C27: no stream is lost by parsing: in the result of parseM3U the        *)
(* multiset of the variant URLs of all returned Channels is the multiset   *)
(* of the URLs of the completed entries, and the number of variants is the *)
(* final running counter, also when a merged variant has the quality label *)
(* or the URL of a variant the Channel already has.                        *)
(***************************************************************************)
C27_NoStreamLost ==
  Done =>
    /\ \A u \in Range(EntryUrls) \cup Range(ReturnedUrls) :
         Occurrences(ReturnedUrls, u) = Occurrences(EntryUrls, u)
    /\ Len(ReturnedUrls) = globalChannelIndex

\* "Sky Sports HD" twice under the always-group hint: one Channel with the
\* same variant twice
C27_Witness ==
  /\ Done
  /\ category = FOTBOLL
  /\ globalChannelIndex = 2
  /\ Len(ChannelIds(result.groups)) = 1
  /\ LET streams == heap[ChannelIds(result.groups)[1]].streams
     IN /\ Len(streams) = 2
        /\ streams[1] = streams[2]

(***************************************************************************)
(* The fields of a Channel other than streams                              *)
(***************************************************************************)
Identity(ch) ==
  [id |-> ch.id, name |-> ch.name, logo |-> ch.logo, group |-> ch.group,
   url |-> ch.url, tvgId |-> ch.tvgId]

\* the fields as the entry that created the Channel set them
AsCreated(id) ==
  LET e == log[Creator(id)]
  IN /\ heap[id].id = id
     /\ heap[id].name \in {e.rawName, channelInfo(e.rawName).baseName}
     /\ heap[id].logo = e.logo
     /\ heap[id].group = e.groupName
     /\ heap[id].url = e.url
     /\ heap[id].tvgId = e.tvgId

(***************************************************************************)
(* C28: a merge changes only the streams list of the existing Channel: its *)
(* id, name, logo, group, url and tvgId remain those set by the entry that *)
(* created it, whatever the logo, group or tvg-id of the merged entries,   *)
(* and the groups map is left unchanged by the merge.                      *)
(***************************************************************************)
C28_MergeChangesStreamsOnly ==
  /\ [](\A id \in DOMAIN heap : AsCreated(id))
  /\ [][CompletesClaimedEntry =>
          /\ groups' = groups
          /\ DOMAIN heap' = DOMAIN heap
          /\ \A id \in DOMAIN heap : Identity(heap'[id]) = Identity(heap[id])
          /\ Cardinality({id \in DOMAIN heap :
                            heap'[id].streams # heap[id].streams}) = 1]_vars

\* "Sky Sports HD" of group B, with a tvg-id and a logo of its own, was
\* merged into the Channel that "Sky Sports FHD" of group A created
C28_Witness ==
  /\ Len(log) = 2
  /\ log[2].merged
  /\ log[2].channel = log[1].channel
  /\ log[2].tvgId = "sky.hd"
  /\ log[2].logo = "http://logo/hd"
  /\ log[2].groupName = <<"B">>
  /\ heap[log[2].channel].tvgId = "sky.fhd"
  /\ heap[log[2].channel].logo = "http://logo/fhd"
  /\ heap[log[2].channel].group = <<"A">>
  /\ Len(heap[log[2].channel].streams) = 2

(***************************************************************************)
(* C29: in every result of parseM3U each emitted group has a non-empty     *)
(* title and at least one Channel, the titles are pairwise distinct, every *)
(* Channel is in exactly one group, once, and the group field of a Channel *)
(* is the title of the group that contains it.                             *)
(***************************************************************************)
C29_GroupsPartitionChannels ==
  Done =>
    /\ \A i \in DOMAIN result.groups :
         /\ Truthy(result.groups[i].title)
         /\ result.groups[i].channels # <<>>
         /\ \A j \in DOMAIN result.groups :
              j # i => result.groups[j].title # result.groups[i].title
         /\ \A k \in DOMAIN result.groups[i].channels :
              heap[result.groups[i].channels[k]].group = result.groups[i].title
    /\ \A id \in DOMAIN heap :
         Occurrences(ChannelIds(result.groups), id) = 1

\* two groups with a Channel each, and a merged entry whose own group is
\* not emitted
C29_Witness ==
  /\ Done
  /\ Len(result.groups) = 2
  /\ Len(ChannelIds(result.groups)) = 2
  /\ \E i \in DOMAIN log :
       /\ log[i].merged
       /\ \A j \in DOMAIN result.groups :
            result.groups[j].title # log[i].groupName

(***************************************************************************)
(* The state right after a call of getFromCache                            *)
(***************************************************************************)
WasRead == lastRead.done

ReadMatches == lastRead.item.data.items

SavedToday ==
  /\ lastRead.item.kind = "entry"
  /\ lastRead.item.date = getLocalDateString(lastRead.dateAt)

KickoffReached ==
  \E i \in DOMAIN ReadMatches :
    /\ ReadMatches[i].status \in {"SCHEDULED", "TIMED"}
    /\ ReadMatches[i].rawDate.present /\ ReadMatches[i].rawDate.valid
    /\ ReadMatches[i].rawDate.at <= lastRead.nowAt

AnyLive ==
  \E i \in DOMAIN ReadMatches : ReadMatches[i].status \in {"IN_PLAY", "PAUSED"}

Age == lastRead.nowAt - lastRead.item.timestamp

(***************************************************************************)
(* C30: getFromCache returns the stored data only when the entry was saved *)
(* on the current local date and, unless ignoreTTL is set, no SCHEDULED or *)
(* TIMED match in it has reached its kick-off and the age of the entry is  *)
(* at most 1 minute if a match is IN_PLAY or PAUSED and at most 15 minutes *)
(* otherwise; in every other case, a missing or unparseable entry          *)
(* included, it returns null, and it never throws.                         *)
(***************************************************************************)
C30_CacheFreshness ==
  WasRead =>
    IF /\ SavedToday
       /\ \/ lastRead.ignoreTTL
          \/ /\ ~KickoffReached
             /\ Age <= (IF AnyLive THEN 60000 ELSE 900000)
      THEN ~lastRead.isNull /\ lastRead.data = lastRead.item.data
      ELSE lastRead.isNull

\* a SCHEDULED match saved before its kick-off is read at the kick-off, one
\* minute after the save: null, and the stale read (ignoreTTL) gives the data
C30_Witness ==
  /\ WasRead
  /\ SavedToday
  /\ KickoffReached
  /\ ~AnyLive
  /\ Age = 60000
  /\ lastRead.nowAt = 60000
  /\ lastRead.ignoreTTL
  /\ ~lastRead.isNull
  /\ ENABLED (readCache /\ lastRead'.isNull /\ ~lastRead'.ignoreTTL
                /\ clockMs' = clockMs)

(***************************************************************************)
(* The state right after a call of fetchFootballHighlights whose two       *)
(* upstream fetches gave no match                                          *)
(***************************************************************************)
NothingFetched ==
  /\ highlightsCall.state = "done"
  /\ highlightsCall.fetched
  /\ highlightsCall.merged = <<>>

\* the list of the same-day entry at the time of the stale read, the empty
\* list without such an entry
SameDayList(item) ==
  IF item.kind = "entry" /\ item.date = getLocalDateString(highlightsCall.readAt)
    THEN item.data.items
    ELSE <<>>

\* the cache held an entry of the day on which the call started
EntryOfTheDay(item) ==
  /\ item.kind = "entry"
  /\ item.date = getLocalDateString(highlightsCall.startedAt)

\* the cache is written only with a non-empty merged result
WrittenOnlyNonEmpty ==
  /\ storage.kind = "entry" => storage.data.items # <<>>
  /\ (highlightsCall.state = "done" /\ highlightsCall.fetched
        /\ highlightsCall.merged # <<>>) =>
       /\ storage.kind = "entry"
       /\ storage.data.items = highlightsCall.merged

\* C31 as stated: the cache entry is left unchanged, whatever it was
C31_CacheEntryUnchanged ==
  /\ WrittenOnlyNonEmpty
  /\ NothingFetched =>
       /\ storage = highlightsCall.before
       /\ highlightsCall.result = SameDayList(highlightsCall.before)

(***************************************************************************)
(* C31: fetchFootballHighlights never replaces a cached list by an empty   *)
(* one: when both upstream fetches fail or return no match, the cache      *)
(* entry of the same day is left unchanged (an entry of another day, or an *)
(* item that is no entry, was removed by the cleanup at the start of the   *)
(* call) and the call returns the same-day cached list regardless of its   *)
(* age if one exists, otherwise an empty list; the cache is written only   *)
(* when the merged fetch result is non-empty.                              *)
(***************************************************************************)
C31_SameDayEntryUnchanged ==
  /\ WrittenOnlyNonEmpty
  /\ NothingFetched =>
       /\ storage = IF EntryOfTheDay(highlightsCall.before)
                      THEN highlightsCall.before
                      ELSE NoItem
       /\ highlightsCall.result = SameDayList(storage)

\* a list saved more than 15 minutes ago is returned by a call whose
\* fetches both failed, and the entry is still the one saved
C31_Witness ==
  /\ NothingFetched
  /\ storage.kind = "entry"
  /\ storage = highlightsCall.before
  /\ highlightsCall.readAt - storage.timestamp > 900000
  /\ highlightsCall.result = storage.data.items
  /\ highlightsCall.result # <<>>

(***************************************************************************)
(* The latest call of pollLiveScores                                       *)
(***************************************************************************)
PollBaseline == baselineOf(scoresCall.previous, scoresCall.cached)

\* the events of the result that bear the id of a tracked match
EventsFor(id) ==
  SelectSeq(scoresCall.result.events, LAMBDA e : e.matchId = id)

\* the score pair that the response gives for a tracked match, null as 0
LivePair(id) ==
  LET m == liveMatchOf(scoresCall.live, id)
  IN << IF m.home = NullScore THEN 0 ELSE m.home,
        IF m.away = NullScore THEN 0 ELSE m.away >>

KnownPair(prevMatch) ==
  << IF prevMatch.homeScore = NullScore THEN 0 ELSE prevMatch.homeScore,
     IF prevMatch.awayScore = NullScore THEN 0 ELSE prevMatch.awayScore >>

Increased(old, new) == new[1] > old[1] \/ new[2] > old[2]

C33_AnnouncedOnce == reannounced = {}

(***************************************************************************)
(* The notifications of the player                                         *)
(***************************************************************************)
Displayed(n) == currentNotification # NoNotification /\ currentNotification.n = n

Queued(n) == n \in Numbers(notificationQueue)

\* the queue keeps the order of the appends, and holds what is still to be
\* displayed
InEnqueueOrder ==
  /\ \A i, j \in DOMAIN notificationQueue :
       i < j => notificationQueue[i].n < notificationQueue[j].n
  /\ \A i \in DOMAIN notificationQueue : notificationQueue[i].n > lastShown
  /\ currentNotification # NoNotification => currentNotification.n = lastShown

\* a step displays the head of the queue, if it displays anything, and takes
\* from the queue what it displays, unless it clears the queue for good
HeadDisplayed ==
  LET gone == Numbers(notificationQueue) \ Numbers(notificationQueue')
  IN /\ (currentNotification' # currentNotification
           /\ currentNotification' # NoNotification) =>
          /\ currentNotification'.n > lastShown
          /\ notificationQueue # <<>> =>
               currentNotification' = Head(notificationQueue)
          /\ currentNotification'.n \notin Numbers(notificationQueue')
     /\ gone # {} =>
          \/ gone = {currentNotification'.n}
          \/ ~isGoalAlertEnabled' /\ notificationQueue' = <<>>

(***************************************************************************)
(* C34: at most one goal notification is displayed at any time, and queued *)
(* events become the displayed notification one by one in the order in     *)
(* which they were enqueued, each removed from the queue exactly once at   *)
(* the moment it is displayed: the queue processor skips, duplicates and   *)
(* reorders nothing.                                                       *)
(***************************************************************************)
C34_OneByOneInOrder == []InEnqueueOrder /\ [][HeadDisplayed]_vars

\* the first event is displayed and the second waits in the queue
C34_Witness ==
  /\ Displayed(1)
  /\ Len(notificationQueue) = 1
  /\ Queued(2)

(***************************************************************************)
(* C35: while goal alerts stay enabled, every event appended to the        *)
(* notification queue is eventually displayed, and every displayed         *)
(* notification is eventually cleared, after which the next queued event,  *)
(* if any, is displayed: nothing waits in the queue while nothing is       *)
(* displayed.                                                              *)
(***************************************************************************)
C35_EventuallyDisplayedAndCleared ==
  /\ \A n \in 1..MaxEvents :
       /\ Queued(n) ~> (Displayed(n) \/ ~isGoalAlertEnabled)
       /\ Displayed(n) ~> ~Displayed(n)
  /\ [](currentNotification = NoNotification => notificationQueue = <<>>)

\* the second event is displayed, with its timer pending, after the first
C35_Witness ==
  /\ isGoalAlertEnabled
  /\ Displayed(2)
  /\ notificationTimeout
  /\ notificationQueue = <<>>

(***************************************************************************)
(* C36: once goal alerts are disabled, the displayed notification and the  *)
(* queue are cleared and they stay empty until alerts are enabled again,   *)
(* even if a poll that was started while alerts were enabled completes     *)
(* afterwards.                                                             *)
(***************************************************************************)
C36_DisabledStaysEmpty ==
  ~isGoalAlertEnabled =>
    /\ currentNotification = NoNotification
    /\ notificationQueue = <<>>

(***************************************************************************)
(* The notifications and the Enter key                                     *)
(***************************************************************************)
Notifications ==
  {notificationQueue[i] : i \in DOMAIN notificationQueue}
    \cup ({currentNotification} \ {NoNotification})

\* a channel to watch is the channel of a live first entry
CarriesLiveFirst ==
  \A notif \in Notifications :
    notif.event.channelToWatch # NoChannel =>
      /\ Len(notif.found) > 0
      /\ notif.found[1].isLive
      /\ notif.event.channelToWatch = notif.found[1].channel

\* Enter was pressed with the list closed and a channel to watch displayed
ShortcutPressed ==
  /\ lastEnter.pressed
  /\ ~lastEnter.listWasOpen
  /\ lastEnter.carried # NoChannel

ShortcutTaken ==
  /\ lastEnter.selected = lastEnter.carried
  /\ channel = lastEnter.carried
  /\ ~lastEnter.listOpen
  /\ ~isListOpen

\* C37 as stated: the shortcut is taken whatever else is shown
C37_EnterSelectsChannel ==
  /\ CarriesLiveFirst
  /\ ShortcutPressed => ShortcutTaken

(***************************************************************************)
(* C37: a goal notification carries a channel to watch only when           *)
(* findLocalMatches for the event's match title returned a non-empty list  *)
(* whose first entry is live, and then it is that first entry's channel;   *)
(* pressing Enter with the channel list closed and the teletext not shown  *)
(* while such a notification is displayed selects exactly that channel and *)
(* does not open the channel list.                                         *)
(***************************************************************************)
C37_EnterSelectsChannelUnlessTeletext ==
  /\ CarriesLiveFirst
  /\ (ShortcutPressed /\ ~lastEnter.teletext) => ShortcutTaken

\* Enter has switched the player from channel "a" to the channel of the
\* notification, "b", which shows the match live while "a" shows it next
C37_Witness ==
  /\ ShortcutPressed
  /\ ~lastEnter.teletext
  /\ lastEnter.carried = GuideChannels[2]
  /\ channel = GuideChannels[2]
  /\ currentNotification.event.channelToWatch = GuideChannels[2]
  /\ Len(currentNotification.found) = 2

(***************************************************************************)
(* The state of the App once every run of loadData has completed           *)
(***************************************************************************)
AllLoaded == loads > 0 /\ inFlight = {}

(***************************************************************************)
(* C38: when the active category changes while an earlier playlist/EPG     *)
(* load is still in flight, then once all in-flight loads have completed   *)
(* the playlist and EPG data held by the app are those loaded for the      *)
(* currently active category; a slower response belonging to a previously  *)
(* selected category never replaces them.                                  *)
(***************************************************************************)
C38_HeldForActiveCategory ==
  AllLoaded =>
    /\ heldFor.playlist = activeCategory
    /\ heldFor.epgData = activeCategory

(***************************************************************************)
(* The stream of VideoPlayer: the variants of the playing channel, the     *)
(* video effect and its reconnect timers (part_003 lines 96-116, 345-436   *)
(* and 484-674; VideoPlayer.tsx lines 138-189).  A step is an event, the   *)
(* render that it causes and the effects of that render.                   *)
(***************************************************************************)
MaxStreams == 3

MaxTimers == 3

\* video.removeAttribute('src')
NoSrc == <<>>

\* m3uService.ts lines 155-183: the k-th channel has k variants, the first
\* of them at the url of the channel
StreamChannel(k) ==
  [id |-> k, tvgId |-> Undefined, url |-> <<k, 1>>,
   streams |-> [j \in 1..k |-> [quality |-> j, url |-> <<k, j>>]]]

\* types.ts line 15: streams is optional; m3uService.ts line 179: streams: []
PlainChannel ==
  [id |-> MaxStreams + 1, tvgId |-> Undefined, url |-> <<MaxStreams + 1, 0>>,
   streams |-> <<>>]

StreamChannels == {StreamChannel(k) : k \in 1..MaxStreams} \cup {PlainChannel}

\* the alerts, the list aside
alertsButList ==
  <<isGoalAlertEnabled, notificationQueue, currentNotification,
    notificationTimeout, lastKnownMatches, polls, liveScore, showTeletext,
    enqueued, lastShown, announced, reannounced, lastEnter>>

\* the guide, the playing channel aside
guideButChannel ==
  <<epgData, now, currentProgram, nextProgram, progress, guideHistory>>

\* the state that the stream never touches
beyondStreams ==
  <<parserVars, normalizerVars, loaderVars, fetchVars, cacheVars,
    highlightsVars, scoresVars, guideButChannel, alertsButList>>

\* the timers and references of the video effect
timerVars == <<retryTimeoutRef, stallTimeoutRef, timers, armed>>

\* a player is mounted
IsPlaying == channel.id # 0

\* lines 360-363: streams[activeStreamIndex] is undefined outside the array
streamUrl(ch, index) ==
  IF Len(ch.streams) > 0 /\ index + 1 \in DOMAIN ch.streams
    THEN ch.streams[index + 1].url
    ELSE ch.url

\* the % of JavaScript: the sign of the result is the sign of the dividend
Rem(a, n) == IF a >= 0 THEN a % n ELSE 0 - ((0 - a) % n)

\* the previous index without the + streams.length
cycleBack(i, n) == Rem(i - 1, n)

\* line 571
cyclePrevious(i, n) == Rem(i - 1 + n, n)

\* line 580
cycleNext(i, n) == Rem(i + 1, n)

\* setTimeout: the timer, with the URL that the loadStream of its closure loads
Timer(id, kind, url) == [id |-> id, kind |-> kind, url |-> url, stale |-> FALSE]

\* clearTimeout of the timers that ids name
cleared(pending, ids) == {t \in pending : t.id \notin ids}

\* the timers that a cleanup leaves pending belong to a stream that is gone
outlived(pending) == {[t EXCEPT !.stale = TRUE] : t \in pending}

\* lines 423-435, then lines 346-355 and 421: the cleanup of the effect, and
\* the effect for the channel and index of the new render
videoEffect(ch, index) ==
  /\ timers' = outlived(cleared(timers, {retryTimeoutRef, stallTimeoutRef}))
  /\ hls' = IF nativeHls THEN "none" ELSE "attached"
  /\ videoSrc' = streamUrl(ch, index)
  /\ UNCHANGED <<nativeHls, retryTimeoutRef, stallTimeoutRef, armed>>

\* the state that an event met
Key(key) ==
  [key |-> key, index |-> activeStreamIndex, variants |-> Len(channel.streams),
   listOpen |-> isListOpen, teletext |-> showTeletext]

\* the App mounts the player on a channel: fresh state and references
playerOpened(c) ==
  /\ ~IsPlaying
  /\ channel' = c
  /\ activeStreamIndex' = 0
  /\ isListOpen' = FALSE
  /\ retryTimeoutRef' = 0
  /\ stallTimeoutRef' = 0
  /\ hls' = IF nativeHls THEN "none" ELSE "attached"
  /\ videoSrc' = streamUrl(c, 0)
  /\ lastKey' = [key |-> "open", index |-> 0, variants |-> 0,
                 listOpen |-> FALSE, teletext |-> FALSE]
  /\ UNCHANGED <<beyondStreams, nativeHls, timers, armed>>

\* lines 97-116: onChannelSelect(c) with another channel
onChannelSelect(c) ==
  /\ IsPlaying
  /\ ~showTeletext
  /\ c.id # channel.id
  /\ channel' = c
  /\ activeStreamIndex' = 0
  /\ isListOpen' = FALSE
  /\ videoEffect(c, 0)
  /\ lastKey' = Key("channel")
  /\ UNCHANGED beyondStreams

\* lines 484-497 and 564-596: ArrowLeft or ArrowRight
handleArrow(key) ==
  /\ IsPlaying
  /\ lastKey' = Key(key)
  /\ IF ~showTeletext /\ ~isListOpen /\ Len(channel.streams) > 1
       THEN /\ activeStreamIndex' =
                 IF key = "Left"
                   THEN cyclePrevious(activeStreamIndex, Len(channel.streams))
                   ELSE cycleNext(activeStreamIndex, Len(channel.streams))
            /\ videoEffect(channel, activeStreamIndex')
       ELSE UNCHANGED <<activeStreamIndex, videoSrc, hls, nativeHls,
                        timerVars>>
  /\ UNCHANGED <<beyondStreams, channel, isListOpen>>

\* lines 455-480 and 666-668: Enter with the list closed
openChannelList ==
  /\ IsPlaying
  /\ ~showTeletext
  /\ ~isListOpen
  /\ isListOpen' = TRUE
  /\ UNCHANGED <<beyondStreams, channel, streamVars>>

\* lines 547-557: Back with the list open
closeList ==
  /\ IsPlaying
  /\ ~showTeletext
  /\ isListOpen
  /\ isListOpen' = FALSE
  /\ UNCHANGED <<beyondStreams, channel, streamVars>>

\* lines 328-333 and 649: onClose(); the App unmounts the player, whose
\* cleanup runs (lines 423-435)
playerClosed ==
  /\ IsPlaying
  /\ ~showTeletext
  /\ channel' = NoChannel
  /\ activeStreamIndex' = 0
  /\ isListOpen' = FALSE
  /\ timers' = outlived(cleared(timers, {retryTimeoutRef, stallTimeoutRef}))
  /\ retryTimeoutRef' = 0
  /\ stallTimeoutRef' = 0
  /\ hls' = "none"
  /\ videoSrc' = NoSrc
  /\ lastKey' = NoKey
  /\ UNCHANGED <<beyondStreams, nativeHls, armed>>

\* lines 486-491, in a mounted player
teletextKey ==
  /\ IsPlaying
  /\ toggleTeletext

\* lines 385-388: retryConnection in the closure of the stream at url
retryConnection(url) ==
  /\ armed < MaxTimers
  /\ armed' = armed + 1
  /\ retryTimeoutRef' = armed + 1
  /\ timers' = cleared(timers, {retryTimeoutRef})
                 \cup {Timer(armed + 1, "retry", url)}

\* VideoPlayer.tsx lines 166 and 174: the reference is assigned a new timer
\* and the timer that it named is left pending
retryUncleared(url) ==
  /\ armed < MaxTimers
  /\ armed' = armed + 1
  /\ retryTimeoutRef' = armed + 1
  /\ timers' = timers \cup {Timer(armed + 1, "retry", url)}

\* line 403: the error event of the video element
handleNativeError ==
  /\ IsPlaying
  /\ retryConnection(streamUrl(channel, activeStreamIndex))
  /\ UNCHANGED <<beyondStreams, channel, isListOpen, activeStreamIndex,
                 videoSrc, hls, nativeHls, stallTimeoutRef, lastKey>>

\* lines 377-379: a fatal error of the Hls instance, which is destroyed
handleHlsError ==
  /\ IsPlaying
  /\ hls = "attached"
  /\ hls' = "destroyed"
  /\ retryConnection(streamUrl(channel, activeStreamIndex))
  /\ UNCHANGED <<beyondStreams, channel, isListOpen, activeStreamIndex,
                 videoSrc, nativeHls, stallTimeoutRef, lastKey>>

\* lines 405-411: the waiting event of the video element
handleWaiting ==
  /\ IsPlaying
  /\ armed < MaxTimers
  /\ armed' = armed + 1
  /\ stallTimeoutRef' = armed + 1
  /\ timers' = cleared(timers, {stallTimeoutRef})
                 \cup {Timer(armed + 1, "stall",
                             streamUrl(channel, activeStreamIndex))}
  /\ UNCHANGED <<beyondStreams, channel, isListOpen, activeStreamIndex,
                 videoSrc, hls, nativeHls, retryTimeoutRef, lastKey>>

\* lines 396-401: loadedmetadata, canplay or playing
handleStreamReady ==
  /\ IsPlaying
  /\ timers' = cleared(timers, {stallTimeoutRef})
  /\ UNCHANGED <<beyondStreams, channel, isListOpen, activeStreamIndex,
                 videoSrc, hls, nativeHls, retryTimeoutRef, stallTimeoutRef,
                 armed, lastKey>>

\* VideoPlayer.tsx line 174: the error event of the video element
handleError ==
  /\ IsPlaying
  /\ retryUncleared(streamUrl(channel, activeStreamIndex))
  /\ UNCHANGED <<beyondStreams, channel, isListOpen, activeStreamIndex,
                 videoSrc, hls, nativeHls, stallTimeoutRef, lastKey>>

\* VideoPlayer.tsx lines 165-167: a fatal error of the Hls instance
handleFatalError ==
  /\ IsPlaying
  /\ hls = "attached"
  /\ hls' = "destroyed"
  /\ retryUncleared(streamUrl(channel, activeStreamIndex))
  /\ UNCHANGED <<beyondStreams, channel, isListOpen, activeStreamIndex,
                 videoSrc, nativeHls, stallTimeoutRef, lastKey>>

\* lines 357-383 and 387: a retry timer fires and the loadStream of its
\* closure loads the URL of its stream
retryFired ==
  \E t \in timers :
    /\ t.kind = "retry"
    /\ timers' = timers \ {t}
    /\ videoSrc' = t.url
    /\ hls' = IF nativeHls THEN hls ELSE "attached"
    /\ UNCHANGED <<beyondStreams, channel, isListOpen, activeStreamIndex,
                   nativeHls, retryTimeoutRef, stallTimeoutRef, armed,
                   lastKey>>

\* lines 408-410: a stall timer fires and calls the retryConnection of its
\* closure
stallFired ==
  \E t \in timers :
    /\ t.kind = "stall"
    /\ armed < MaxTimers
    /\ armed' = armed + 1
    /\ retryTimeoutRef' = armed + 1
    /\ timers' = cleared(timers, {retryTimeoutRef, t.id})
                   \cup {[Timer(armed + 1, "retry", t.url)
                            EXCEPT !.stale = t.stale]}
    /\ UNCHANGED <<beyondStreams, channel, isListOpen, activeStreamIndex,
                   videoSrc, hls, nativeHls, stallTimeoutRef, lastKey>>

\* no player is mounted; the browser plays HLS itself or through Hls.js
InitStreams ==
  /\ ParserIdle
  /\ NormalizerIdle
  /\ GuideIdle
  /\ LoaderIdle
  /\ FetchIdle
  /\ CacheIdle
  /\ HighlightsIdle
  /\ ScoresIdle
  /\ AlertsIdle
  /\ activeStreamIndex = 0
  /\ videoSrc = NoSrc
  /\ hls = "none"
  /\ nativeHls \in BOOLEAN
  /\ retryTimeoutRef = 0
  /\ stallTimeoutRef = 0
  /\ timers = {}
  /\ armed = 0
  /\ lastKey = NoKey

\* the player of part_003
NextStreams ==
  \/ \E c \in StreamChannels : playerOpened(c)
  \/ \E c \in StreamChannels : onChannelSelect(c)
  \/ \E key \in {"Left", "Right"} : handleArrow(key)
  \/ openChannelList
  \/ closeList
  \/ playerClosed
  \/ teletextKey
  \/ handleNativeError
  \/ handleHlsError
  \/ handleWaiting
  \/ handleStreamReady
  \/ retryFired
  \/ stallFired

SpecStreams == InitStreams /\ [][NextStreams]_vars

\* the player of VideoPlayer.tsx, which has no stall timer and does not
\* switch the variant
NextPlayer ==
  \/ \E c \in StreamChannels : playerOpened(c)
  \/ \E c \in StreamChannels : onChannelSelect(c)
  \/ playerClosed
  \/ handleError
  \/ handleFatalError
  \/ retryFired

SpecPlayer == InitStreams /\ [][NextPlayer]_vars

(***************************************************************************)
(* Vocabulary of the claims on the stream                                  *)
(***************************************************************************)
Variants == Len(channel.streams)

\* the index names a variant, or is 0 on a channel without variants
IndexValid ==
  IF Variants > 0
    THEN activeStreamIndex \in 0..(Variants - 1)
    ELSE activeStreamIndex = 0

\* the latest key was an arrow that met the list closed and over one variant
ArrowMet(key) ==
  /\ lastKey.key = key
  /\ ~lastKey.listOpen
  /\ lastKey.variants > 1

\* the URL loaded is the one of the variant at the index, or of the channel
LoadedAtIndex ==
  videoSrc = IF activeStreamIndex + 1 \in DOMAIN channel.streams
               THEN channel.streams[activeStreamIndex + 1].url
               ELSE channel.url

\* C39 as stated: in a playing channel the index is valid, Right with the
\* list closed and n > 1 variants moves it to (i + 1) mod n and Left to
\* (i - 1 + n) mod n, a change of channel resets it to 0, and the URL loaded
\* is the one of the variant at the index or else of the channel.
C39_IndexCycles ==
  IsPlaying =>
    /\ IndexValid
    /\ ArrowMet("Right") =>
         activeStreamIndex = (lastKey.index + 1) % lastKey.variants
    /\ ArrowMet("Left") =>
         activeStreamIndex =
           (lastKey.index - 1 + lastKey.variants) % lastKey.variants
    /\ lastKey.key \in {"channel", "open"} => activeStreamIndex = 0
    /\ LoadedAtIndex

\* C39 amended: the same, for Right and Left pressed with the list closed,
\* the teletext not shown and n > 1 variants.
C39_IndexCyclesUnlessTeletext ==
  IsPlaying =>
    /\ IndexValid
    /\ ArrowMet("Right") /\ ~lastKey.teletext =>
         activeStreamIndex = (lastKey.index + 1) % lastKey.variants
    /\ ArrowMet("Left") /\ ~lastKey.teletext =>
         activeStreamIndex =
           (lastKey.index - 1 + lastKey.variants) % lastKey.variants
    /\ lastKey.key \in {"channel", "open"} => activeStreamIndex = 0
    /\ LoadedAtIndex

\* Left on the first variant of the channel with the most variants wraps to
\* the last one, whose URL is loaded
C39_Witness ==
  /\ ArrowMet("Left")
  /\ ~lastKey.teletext
  /\ lastKey.index = 0
  /\ Variants = MaxStreams
  /\ activeStreamIndex = MaxStreams - 1
  /\ videoSrc = <<MaxStreams, MaxStreams>>

\* C40: after the channel or the variant changes, or the player closes, no
\* retry or stall timer armed for the previous stream is pending, so the URL
\* loaded is the one of the playing stream, and none with the player closed.
C40_NoTimerOutlivesItsStream ==
  /\ \A t \in timers : ~t.stale
  /\ videoSrc = IF IsPlaying
                  THEN streamUrl(channel, activeStreamIndex)
                  ELSE NoSrc

=============================================================================
